---- MODULE Spec2Model ----
(***************************************************************************)
(* LearnFlow LMS: the ordered hierarchy (pages of a section, blocks of a   *)
(* page), its drag-and-drop reordering and the per-row persistence of the  *)
(* position index (order_index) in the backend tables.                     *)
(*                                                                         *)
(* Every handler is an async function: it is modelled as one action per    *)
(* segment between two awaits.  A handler in flight is a record of `calls` *)
(* holding the values its closure captured when it was invoked.            *)
(***************************************************************************)
EXTENDS Integers, Sequences, FiniteSets, TLC

\* ------------------------------------------------------------------ bounds
InitBlocks == 3      \* blocks the page 1 holds initially
MaxOps == 2          \* user events (drag, add, delete, edit, reload) in a run
MaxFails == 1        \* backend calls that fail in a run
MaxOkOps == 4        \* user events in a run in which no backend call fails
InitPages == 3       \* pages the section 1 holds initially
MaxPageOps == 2      \* reorders of the page list in a run
MaxLen == 4          \* items of a list under drag
MaxViewOps == 2      \* sections and pages chosen in a run
MaxDbOps == 2        \* requests made of the backend in a run
MaxAnswerOps == 3    \* answers, videos and reloads of a student in a run
MaxRoleOps == 1      \* events of a user of any role in a run
MaxEditOps == 3      \* dialogs opened, editors opened and blocks saved in a run
MaxAuthOps == 2      \* sign-in attempts and visits of the dashboard in a run
MaxLoopOps == 1      \* drags in a run of reorders whose updates may fail
MaxOverlapOps == 2   \* drags in a run in which the loops of reorders overlap
MaxPolicyOps == 2    \* edits and changes of role in a run
MaxNavOps == 2       \* sections chosen, pages chosen and navigations in a run
MaxMixOps == 2       \* edits, deletes and adds in a run in which they overlap
MaxRecOps == 6       \* clicks on a video post block and in its recorder in a run
MaxRecordings == 2   \* MediaRecorders a recorder creates
MaxTime == 1         \* seconds the timer of a recorder counts

\* ------------------------------------------------------------------ values
Sessions == {"s1", "s2"}
\* the pages of section 1, by id: page 1 holds InitBlocks blocks, page 2 one
\* block, the others none
PageIds == 1..(InitPages + 1)

\* the sections of the course, by id: section 3 has no page
SectionIds == 1..3
Titles == {"t0", "t1"}

Null == [k |-> "null", v |-> <<>>]
Undefined == [k |-> "undefined", v |-> <<>>]
OptList(l) == [k |-> "list", v |-> l]

NoId == 0

\* A row of public.blocks, as `select *` returns it.
BlockRow(id, page_id, type, title, content, options, order_index) ==
  [id |-> id, page_id |-> page_id, type |-> type, title |-> title,
   content |-> content, options |-> options, order_index |-> order_index]

\* ------------------------------------------------------------- JS arrays
\* the elements of an array
Range(q) == {q[j] : j \in 1..Len(q)}

\* Arrays are sequences; the code's indices are 0-based.
At0(a, i) == a[i + 1]

Ids(a) == {a[j].id : j \in 1..Len(a)}

IdSeq(a) == [j \in 1..Len(a) |-> a[j].id]

\* Array.prototype.findIndex with the predicate x.id === id
findIndex(a, id) ==
  IF \E j \in 1..Len(a) : a[j].id = id
  THEN (CHOOSE j \in 1..Len(a) : a[j].id = id /\ \A m \in 1..(j - 1) : a[m].id # id) - 1
  ELSE -1

\* Array.prototype.splice(start, deleteCount, ...items): start is clamped
SpliceStart(len, start) ==
  IF start < 0 THEN (IF len + start < 0 THEN 0 ELSE len + start)
  ELSE IF start > len THEN len ELSE start

SpliceCount(len, st, deleteCount) ==
  IF deleteCount < 0 THEN 0
  ELSE IF deleteCount > len - st THEN len - st ELSE deleteCount

\* the elements splice removes (its return value)
SpliceRemoved(a, start, deleteCount) ==
  LET st == SpliceStart(Len(a), start)
      n == SpliceCount(Len(a), st, deleteCount)
  IN SubSeq(a, st + 1, st + n)

\* the array splice leaves
SpliceArray(a, start, deleteCount, items) ==
  LET st == SpliceStart(Len(a), start)
      n == SpliceCount(Len(a), st, deleteCount)
  IN SubSeq(a, 1, st) \o items \o SubSeq(a, st + n + 1, Len(a))

\* a bug a reorder could have: exchanging the two items
arrayMoveSwap(array, from, to) ==
  [j \in 1..Len(array) |->
     IF j = from + 1 THEN array[to + 1]
     ELSE IF j = to + 1 THEN array[from + 1]
     ELSE array[j]]

\* arrayMove of @dnd-kit/sortable:
\*   newArray.splice(to < 0 ? newArray.length + to : to, 0, newArray.splice(from, 1)[0])
\* (the first argument is computed before the inner splice shortens the array)
arrayMove(array, from, to) ==
  LET start == IF to < 0 THEN Len(array) + to ELSE to
      removed == SpliceRemoved(array, from, 1)
      rest == SpliceArray(array, from, 1, <<>>)
  IN SpliceArray(rest, start, 0, removed)

\* what the drag of `active` onto `over` makes of the list:
\*   oldIndex = list.findIndex(x => x.id === active.id)
\*   newIndex = list.findIndex(x => x.id === over.id)
\*   arrayMove(list, oldIndex, newIndex)
DragResult(list, active, over) ==
  arrayMove(list, findIndex(list, active), findIndex(list, over))

\* ---------------------------------------------------------------- state
VARIABLES
  blocksTable,   \* public.blocks: id -> row
  nextId,        \* the next uuid uuid_generate_v4() hands out
  page,          \* PageContent's page prop (page.id), per session
  blocks,        \* PageContent's blocks state, per session
  loading,       \* PageContent's loading state, per session
  pagesTable,    \* public.pages: id -> row
  pages,         \* DashboardLayout's pages state, per session
  calls,         \* the async handlers in flight, in the order they were invoked
  nops,          \* user events so far
  nfail,         \* backend calls that failed so far
  lastDone,      \* history: the reorder that ended last, and how it ended
  lastRead,      \* history: per page, what the last select returned since the last write
  mv,            \* a list under drag, for the drag semantics alone
  selectedSection, \* DashboardLayout's selectedSection (its id), per session
  usersTable,    \* public.users: id -> row
  coursesTable,  \* public.courses: id -> row
  sectionsTable, \* public.course_sections: id -> row
  enrollments,   \* public.course_enrollments: the rows
  answersTable,  \* public.student_answers: the rows
  videoPostsTable, \* public.video_posts: the rows
  api,           \* history: the last request a client made of the backend, and its answer
  user,          \* DashboardLayout's user (the profile), per session
  selectedAnswer, \* BlockItem's selectedAnswer, per session and block shown
  videoPost,     \* BlockItem's videoPost, per session and block shown
  edit,          \* BlockItem's isEditing, editTitle, editContent, editOptions, likewise
  modal,         \* PageContent's showAddModal and the state of AddBlockModal, per session
  route,         \* the page the browser of a session shows: "/" or "/dashboard"
  authSession,   \* the auth session the supabase client of a browser holds: a user id
  login,         \* LoginPage's email, password, error, loading, per session
  courses,       \* DashboardLayout's courses, per session
  selectedCourse, \* DashboardLayout's selectedCourse (its id), per session
  sections,      \* DashboardLayout's sections, per session
  dashLoading,   \* DashboardLayout's loading, per session
  recorder       \* the VideoRecorder a BlockItem shows: its state and refs, per session

vars == <<blocksTable, nextId, page, blocks, loading, pagesTable, pages, calls, nops,
          nfail, lastDone, lastRead, mv, selectedSection, usersTable, coursesTable,
          sectionsTable, enrollments, answersTable, videoPostsTable, api, user,
          selectedAnswer, videoPost, edit, modal, route, authSession, login, courses,
          selectedCourse, sections, dashLoading, recorder>>

\* the tables no component of the dashboard writes
dbRest == <<usersTable, coursesTable, sectionsTable, enrollments>>

\* the tables of what the students hand in
submissions == <<answersTable, videoPostsTable>>

\* the sign-in and what checkUser and fetchSections set
auth == <<route, authSession, login, courses, selectedCourse, sections, dashLoading>>

\* what neither PageContent nor the reorder of the pages touches
others == <<selectedSection, dbRest, api, user, auth>>

\* the state of the BlockItems of a page
items == <<selectedAnswer, videoPost, edit, recorder>>

\* what PageContent and its BlockItems leave alone
beside == <<pagesTable, pages, mv, others, submissions>>

\* the same, and the add dialog
notPage == <<beside, modal>>

\* what the handlers of PageContent leave alone
notPageContent == <<notPage, items>>

\* what the handlers of DashboardLayout and Sidebar leave alone
notDashboard ==
  <<blocksTable, nextId, page, blocks, loading, lastRead, mv, others, submissions, items,
    modal>>

NoArg == [id |-> NoId, row |-> Null]
NoRead == <<[id |-> NoId]>>
NoDone == [fn |-> "none"]

PosOf(tbl) == [id \in DOMAIN tbl |-> tbl[id].order_index]

\* history: the reorder that ended before this one began, with no write in between
Prev(d) ==
  IF d.fn = "none" THEN NoDone
  ELSE [fn |-> d.fn, s |-> d.s, order |-> d.order, orig |-> d.orig, arg |-> d.arg,
        oks |-> d.oks, before |-> d.before, after |-> d.after, how |-> d.how,
        dirty |-> d.dirty]

\* a handler invocation: what its closure captured (the parent's id, an array, its
\* arguments); `orig` is the local list and `before` the stored positions then
Call(fn, s, pg, list, arg, orig, tbl) ==
  [fn |-> fn, s |-> s, pc |-> "await", page |-> pg, list |-> list, arg |-> arg,
   error |-> FALSE, data |-> <<>>, oks |-> <<>>,
   orig |-> IdSeq(orig), before |-> PosOf(tbl), prev |-> Prev(lastDone),
   dirty |-> FALSE, ldirty |-> FALSE]

RemoveAt(q, k) == SubSeq(q, 1, k - 1) \o SubSeq(q, k + 1, Len(q))

\* history: call k wrote the table; every other call in flight saw another writer
Touch(q, k) ==
  [j \in 1..Len(q) |-> IF j # k THEN [q[j] EXCEPT !.dirty = TRUE] ELSE q[j]]

\* history: a handler of session s other than call k set the local list
TouchLocal(q, k, s) ==
  [j \in 1..Len(q) |->
     IF j # k /\ q[j].s = s THEN [q[j] EXCEPT !.ldirty = TRUE] ELSE q[j]]

Stale(d) == NoDone

NoReads == [p \in PageIds |-> NoRead]

\* ------------------------------------------------------------ the backend
\* the rows of a page
RowsOf(tbl, pg) == {tbl[id] : id \in {x \in DOMAIN tbl : tbl[x].page_id = pg}}

\* ORDER BY order_index: the rows in ascending order; rows of equal order_index
\* come in an order the database does not specify, so in any order
RECURSIVE OrderBy(_)
OrderBy(S) ==
  IF S = {} THEN {<<>>}
  ELSE LET least == {r \in S : \A x \in S : r.order_index <= x.order_index}
       IN UNION {{<<r>> \o q : q \in OrderBy(S \ {r})} : r \in least}

\* .from('blocks').select('*').eq('page_id', page.id).order('order_index'):
\* every answer the database may give
selectBlocks(tbl, pg) == OrderBy(RowsOf(tbl, pg))

\* .update(payload).eq('id', id): the columns the payload names are set in the row
\* of that id; no row of that id is no error
updateRow(tbl, id, payload) ==
  IF id \in DOMAIN tbl
  THEN [tbl EXCEPT ![id] =
          [f \in DOMAIN @ |-> IF f \in DOMAIN payload THEN payload[f] ELSE @[f]]]
  ELSE tbl

\* the types of the blocks of the first page of the seed data, in order
SeedTypes == <<"heading", "video_post", "yes_no", "image">>

\* the seed data: page 1 holds blocks 1..InitBlocks at 0..InitBlocks-1, page 2 one
\* multiple choice block, the other pages none
SeedBlocks ==
  [id \in 1..(InitBlocks + 1) |->
     IF id <= InitBlocks
     THEN BlockRow(id, 1, IF id <= Len(SeedTypes) THEN SeedTypes[id] ELSE "text",
                   "t0", "c0", Null, id - 1)
     ELSE BlockRow(id, 2, "multiple_choice", "t0", "c0", OptList(<<"o1", "o2">>), 0)]

\* the body of a request: JSON.stringify drops the keys whose value is undefined
\* (of the keys handleSave sends, only options can be undefined)
Json(updates) ==
  [f \in {g \in DOMAIN updates : g = "options" => updates[g].k # "undefined"}
     |-> updates[f]]

\* .update(updates).eq('id', id)
updateBlock(tbl, id, updates) == updateRow(tbl, id, Json(updates))

\* .delete().eq('id', id)
deleteBlock(tbl, id) == [x \in DOMAIN tbl \ {id} |-> tbl[x]]

\* the rows of a table
Rows(tbl) == {tbl[id] : id \in DOMAIN tbl}

\* a table without the rows of some ids
Without(tbl, ids) == [x \in DOMAIN tbl \ ids |-> tbl[x]]

\* a foreign key that lets the children be when their parent is deleted
ReferencingNone(rows, col, parents) == {}

\* col REFERENCES parent(id) ON DELETE CASCADE: the rows that go with the parents
Referencing(rows, col, parents) == {r \in rows : r[col] \in parents}

\* .insert(newBlock).select().single(): the row gets a fresh id
insertBlock(tbl, id, newBlock) ==
  [x \in DOMAIN tbl \cup {id} |->
     IF x = id
     THEN BlockRow(id, newBlock.page_id, newBlock.type, newBlock.title,
                   newBlock.content, newBlock.options, newBlock.order_index)
     ELSE tbl[x]]

\* what a reorder hands its caller: the promise of the async handler fulfils with
\* undefined when the loop ends; the { error } an update answers is never read
Outcome(oks) == "fulfilled"

\* history: how a reorder ended
Done(c, how, tbl) ==
  [fn |-> c.fn, s |-> c.s, page |-> c.page, order |-> IdSeq(c.list), oks |-> c.oks,
   orig |-> c.orig, arg |-> c.arg, before |-> c.before, prev |-> c.prev,
   dirty |-> c.dirty, ldirty |-> c.ldirty, how |-> how,
   result |-> Outcome(c.oks), after |-> PosOf(tbl), local |-> how = "returned"]

\* ------------------------------------------------------------- the inputs
UpdateInputs ==
  {[title |-> "t1", content |-> "c1", options |-> Undefined],
   [title |-> "t0", content |-> "c0", options |-> OptList(<<"o1">>)]}

AddInputs ==
  {[type |-> "text", title |-> "t1", content |-> "c0", options |-> Undefined],
   [type |-> "multiple_choice", title |-> "t0", content |-> "c1",
    options |-> OptList(<<"o1">>)]}

TextInputs == {in \in AddInputs : in.type = "text"}

TitleInputs == {u \in UpdateInputs : u.title # "t0"}

\* ------------------------------------------------------------ PageContent
\* the effect on [page.id]: setLoading(true), then the select is issued
fetchBlocksOf(s, pg) == Call("fetchBlocks", s, pg, <<>>, NoArg, <<>>, blocksTable)

fetchBlocks(s) == fetchBlocksOf(s, page[s])

\* the select of fetchBlocks runs in the database
FetchExec(k, ok) ==
  /\ k \in 1..Len(calls)
  /\ calls[k].fn = "fetchBlocks" /\ calls[k].pc = "await"
  /\ IF ok
     THEN \E q \in selectBlocks(blocksTable, calls[k].page) :
            /\ calls' = [calls EXCEPT ![k].pc = "resume", ![k].data = q]
            /\ lastRead' = [lastRead EXCEPT ![calls[k].page] = q]
     ELSE /\ calls' = [calls EXCEPT ![k].pc = "resume", ![k].error = TRUE]
          /\ UNCHANGED lastRead
  /\ nfail' = IF ok THEN nfail ELSE nfail + 1
  /\ UNCHANGED <<blocksTable, nextId, page, blocks, loading, nops, lastDone>>
  /\ UNCHANGED notPageContent

\* user is null: no profile was loaded
NoUser == [id |-> "none", role |-> "none"]

\* an edit affordance that every signed-in user is given
canEditSignedIn(s) == user[s] # NoUser

\* const canEdit = user?.role === 'teacher' || user?.role === 'admin': the drag
\* handles, the edit, delete and add buttons are rendered, and the sortables
\* enabled, only when it holds
canEdit(s) == user[s].role = "teacher" \/ user[s].role = "admin"

\* no BlockItem holds an answer
NoItems == [s \in Sessions |-> <<>>]

\* the state of the BlockItems that stay mounted when the list becomes `list`:
\* the items are keyed by block.id
Kept(f, list) == [b \in DOMAIN f \cap Ids(list) |-> f[b]]

\* the state a BlockItem is mounted with: useState(block.title), ...
Mount(block) ==
  [isEditing |-> FALSE, editTitle |-> block.title, editContent |-> block.content,
   editOptions |-> IF block.options.k = "list" THEN block.options.v ELSE <<>>]

\* new Blob(chunks, { type: 'video/webm' })
Blob(chunks) == [k |-> "blob", v |-> chunks]

\* URL.createObjectURL(blob)
createObjectURL(blob) == [k |-> "url", v |-> blob.v]

\* history: nothing was started or stopped since the recorder was mounted or
\* Re-record was clicked
NoHist == [started |-> FALSE, stopped |-> FALSE]

\* no VideoRecorder is mounted.  `saving` holds the recordings whose
\* canvas.toBlob has not called back yet and `handed` what onSave was called
\* with: both outlive the component
NoRecorder ==
  [mounted |-> FALSE, block |-> NoId, stream |-> "null", camera |-> 0, error |-> FALSE,
   isRecording |-> FALSE, recordedBlob |-> Null, recordedUrl |-> Null,
   recordingTime |-> 0, chunks |-> <<>>, mediaRecorder |-> 0, state |-> <<>>,
   timer |-> 0, timers |-> {}, hist |-> NoHist, saving |-> <<>>, handed |-> <<>>]

\* the VideoRecorder of a block as it is mounted: the state and the refs as
\* declared, the effect has called startCamera
Mounted(r, b) ==
  [NoRecorder EXCEPT !.mounted = TRUE, !.block = b, !.camera = 1,
                     !.saving = r.saving, !.handed = r.handed]

\* the VideoRecorder is unmounted: the cleanup of its effect stops the tracks
\* and clears the interval, its state is gone
RecorderUnmounted(r) == [NoRecorder EXCEPT !.saving = r.saving, !.handed = r.handed]

\* stream.getTracks().forEach(track => track.stop()): a MediaRecorder that
\* records a stream whose tracks have all ended stops, as after stop()
TracksStopped(state) ==
  [j \in 1..Len(state) |-> IF state[j] = "recording" THEN "stopping" ELSE state[j]]

\* the list of the session is rendered anew: the items that stay keep their
\* state, the new ones are mounted
ItemsKeep(s, list) ==
  /\ selectedAnswer' = [selectedAnswer EXCEPT ![s] = Kept(@, list)]
  /\ videoPost' = [videoPost EXCEPT ![s] = Kept(@, list)]
  /\ edit' = [edit EXCEPT ![s] =
               [b \in Ids(list) |->
                  IF b \in DOMAIN edit[s] THEN edit[s][b]
                  ELSE Mount(At0(list, findIndex(list, b)))]]
  /\ recorder' = [recorder EXCEPT ![s] =
                   IF @.block \in Ids(list) THEN @ ELSE RecorderUnmounted(@)]

\* the add dialog: not shown, and as it is mounted
ClosedModal ==
  [open |-> FALSE, step |-> "type", selectedType |-> "null", title |-> "",
   content |-> "", options |-> <<"">>]

OpenModal == [ClosedModal EXCEPT !.open = TRUE]

\* the spinner replaces the list: the BlockItems are unmounted
ItemsReset(s) == ItemsKeep(s, <<>>)

\* a read that keeps the list it had when it is given no data
DataOrKept(c) ==
  IF c.error THEN (IF c.fn = "fetchBlocks" THEN blocks[c.s] ELSE pages[c.s]) ELSE c.data

\* data || []
DataOrEmpty(c) == IF c.error THEN <<>> ELSE c.data

\* fetchBlocks resumes: setBlocks(data || []); setLoading(false)
FetchDone(k) ==
  /\ k \in 1..Len(calls)
  /\ calls[k].fn = "fetchBlocks" /\ calls[k].pc = "resume"
  /\ blocks' = [blocks EXCEPT ![calls[k].s] = DataOrEmpty(calls[k])]
  /\ loading' = [loading EXCEPT ![calls[k].s] = FALSE]
  /\ calls' = RemoveAt(TouchLocal(calls, k, calls[k].s), k)
  /\ UNCHANGED <<blocksTable, nextId, page, nops, nfail, lastDone, lastRead>>
  /\ ItemsKeep(calls[k].s, blocks'[calls[k].s])
  /\ UNCHANGED notPage

\* a reorder that leaves the local list alone until its writes are through
Pessimistic(list, newList) == list

\* setBlocks(newBlocks), setPages(newPages): the local list from the render after
\* the drag on, before any update is sent
Optimistic(list, newList) == newList

\* history: the drag a reorder began with
DragArg(list, active, over) ==
  [id |-> active,
   row |-> [from |-> findIndex(list, active), to |-> findIndex(list, over)]]

\* handleDragEnd up to its first await: the list is rendered (not loading, not
\* empty), `active` is one of its items and `over` another, or none
handleDragEnd(s, active, over) ==
  /\ canEdit(s)
  /\ ~loading[s] /\ Len(blocks[s]) > 0
  /\ active \in Ids(blocks[s]) /\ over \in Ids(blocks[s]) \cup {NoId}
  /\ IF over # NoId /\ active # over
     THEN /\ LET newBlocks == DragResult(blocks[s], active, over)
             IN /\ blocks' = [blocks EXCEPT ![s] = Optimistic(@, newBlocks)]
                /\ calls' = Append(TouchLocal(calls, 0, s),
                                   Call("handleDragEnd", s, page[s], newBlocks,
                                        DragArg(blocks[s], active, over),
                                        blocks[s], blocksTable))
          /\ nops' = nops + 1
          /\ UNCHANGED <<blocksTable, nextId, page, loading, nfail, lastDone, lastRead>>
          /\ UNCHANGED notPageContent
     ELSE UNCHANGED vars

\* a loop that stores positions counted from 1
WriteOfOneBased(c, i) == [id |-> At0(c.list, i).id, payload |-> [order_index |-> i + 1]]

\* a loop that goes through the list from its end
WriteOfReversed(c, i) ==
  [id |-> At0(c.list, Len(c.list) - 1 - i).id,
   payload |-> [order_index |-> Len(c.list) - 1 - i]]

\* a loop that sends the whole local object with its new position
WriteOfWholeRow(c, i) ==
  [id |-> At0(c.list, i).id, payload |-> [At0(c.list, i) EXCEPT !.order_index = i]]

\* the write the loop of a reorder issues at index i:
\*   .update({ order_index: i }).eq('id', newBlocks[i].id)
WriteOf(c, i) == [id |-> At0(c.list, i).id, payload |-> [order_index |-> i]]

\* a loop that, when an update fails, puts back the positions it has written and
\* stops
ReorderWriteRollback(k, ok) ==
  /\ k \in 1..Len(calls)
  /\ calls[k].fn = "handleDragEnd"
  /\ LET c == calls[k]
         i == Len(c.oks)
         w == WriteOf(c, i)
         c2 == [c EXCEPT !.oks = Append(@, ok)]
         tbl == IF ok THEN updateRow(blocksTable, w.id, w.payload)
                ELSE [id \in DOMAIN blocksTable |->
                        IF \E j \in 1..i : c.list[j].id = id
                        THEN [blocksTable[id] EXCEPT !.order_index = c.before[id]]
                        ELSE blocksTable[id]]
         q == IF ok THEN Touch(calls, k) ELSE calls
     IN /\ i < Len(c.list)
        /\ blocksTable' = tbl
        /\ lastRead' = IF ok THEN NoReads ELSE lastRead
        /\ IF ok /\ i + 1 < Len(c.list)
           THEN /\ calls' = [q EXCEPT ![k] = c2]
                /\ lastDone' = Stale(lastDone)
           ELSE /\ calls' = RemoveAt(q, k)
                /\ lastDone' = Done(c2, "returned", tbl)
  /\ nfail' = IF ok THEN nfail ELSE nfail + 1
  /\ UNCHANGED <<nextId, page, blocks, loading, nops>>
  /\ UNCHANGED notPageContent

\* one turn of the loop: the update of index i runs in the database (or fails),
\* and the loop goes on to i + 1, whatever the update answered
ReorderWrite(k, ok) ==
  /\ k \in 1..Len(calls)
  /\ calls[k].fn = "handleDragEnd"
  /\ LET c == calls[k]
         i == Len(c.oks)
         w == WriteOf(c, i)
         c2 == [c EXCEPT !.oks = Append(@, ok)]
         tbl == IF ok THEN updateRow(blocksTable, w.id, w.payload)
                ELSE blocksTable
         q == IF ok THEN Touch(calls, k) ELSE calls
     IN /\ i < Len(c.list)
        /\ blocksTable' = tbl
        /\ lastRead' = IF ok THEN NoReads ELSE lastRead
        /\ IF i + 1 < Len(c.list)
           THEN /\ calls' = [q EXCEPT ![k] = c2]
                /\ lastDone' = IF ok THEN Stale(lastDone) ELSE lastDone
           ELSE /\ calls' = RemoveAt(q, k)
                /\ lastDone' = Done(c2, "returned", tbl)
  /\ nfail' = IF ok THEN nfail ELSE nfail + 1
  /\ UNCHANGED <<nextId, page, blocks, loading, nops>>
  /\ UNCHANGED notPageContent

\* handleBlockUpdate up to its await
handleBlockUpdate(s, blockId, updates) ==
  /\ canEdit(s)
  /\ ~loading[s] /\ blockId \in Ids(blocks[s])
  /\ calls' = Append(calls, Call("handleBlockUpdate", s, page[s], blocks[s],
                                 [id |-> blockId, row |-> updates],
                                 blocks[s], blocksTable))
  /\ nops' = nops + 1
  /\ UNCHANGED <<blocksTable, nextId, page, blocks, loading, nfail, lastDone, lastRead>>
  /\ UNCHANGED <<notPage, selectedAnswer, videoPost, recorder>>

\* a line of a textarea that o.trim() leaves empty
Blank(o) == o \in {"", " "}

\* text.split('\n').filter(o => o.trim()), a text being held as its lines (the
\* empty text is the one empty line)
NonBlank(lines) ==
  LET F[j \in 0..Len(lines)] ==
        IF j = 0 THEN <<>>
        ELSE IF Blank(lines[j]) THEN F[j - 1] ELSE Append(F[j - 1], lines[j])
  IN F[Len(lines)]

\* x.length > 0 ? x : undefined
ListOrUndefined(x) == IF Len(x) > 0 THEN OptList(x) ELSE Undefined

\* what the BlockItems leave alone but for their editors
notEdit ==
  <<blocksTable, nextId, page, blocks, loading, calls, nfail, lastDone, lastRead,
    notPage, selectedAnswer, videoPost, recorder>>

\* the pencil button: setIsEditing(true)
setIsEditing(s, b) ==
  /\ canEdit(s)
  /\ ~loading[s] /\ b \in Ids(blocks[s])
  /\ ~edit[s][b].isEditing
  /\ edit' = [edit EXCEPT ![s][b].isEditing = TRUE]
  /\ nops' = nops + 1
  /\ UNCHANGED notEdit

\* the editor is on screen
Editing(s, b) == ~loading[s] /\ b \in Ids(blocks[s]) /\ edit[s][b].isEditing

setEditTitle(s, b, title) ==
  /\ Editing(s, b)
  /\ edit' = [edit EXCEPT ![s][b].editTitle = title]
  /\ UNCHANGED <<notEdit, nops>>

\* the options field is there for a multiple choice block only
setEditOptions(s, b, lines) ==
  /\ Editing(s, b)
  /\ At0(blocks[s], findIndex(blocks[s], b)).type = "multiple_choice"
  /\ edit' = [edit EXCEPT ![s][b].editOptions = NonBlank(lines)]
  /\ UNCHANGED <<notEdit, nops>>

\* Save: onUpdate(block.id, { title, content, options }); setIsEditing(false)
handleSave(s, b) ==
  /\ Editing(s, b)
  /\ handleBlockUpdate(s, b, [title |-> edit[s][b].editTitle,
                               content |-> edit[s][b].editContent,
                               options |-> ListOrUndefined(edit[s][b].editOptions)])
  /\ edit' = [edit EXCEPT ![s][b].isEditing = FALSE]

\* Cancel: the fields are set to the block's, setIsEditing(false)
handleCancel(s, b) ==
  /\ Editing(s, b)
  /\ edit' = [edit EXCEPT ![s][b] = Mount(At0(blocks[s], findIndex(blocks[s], b)))]
  /\ UNCHANGED <<notEdit, nops>>

\* the editor opened, the fields set to the updates, Save clicked: one event
EditAndSave(s, b, updates) ==
  /\ handleBlockUpdate(s, b, updates)
  /\ ~edit[s][b].isEditing
  /\ edit' = [edit EXCEPT ![s][b] =
               [isEditing |-> FALSE, editTitle |-> updates.title,
                editContent |-> updates.content,
                editOptions |-> IF updates.options.k = "list" THEN updates.options.v
                                ELSE <<>>]]

\* history: a write other than a reorder's ran
Written ==
  /\ lastRead' = NoReads
  /\ lastDone' = Stale(lastDone)

UpdateExec(k, ok) ==
  /\ k \in 1..Len(calls)
  /\ calls[k].fn = "handleBlockUpdate" /\ calls[k].pc = "await"
  /\ IF ok
     THEN /\ blocksTable' = updateBlock(blocksTable, calls[k].arg.id, calls[k].arg.row)
          /\ calls' = [Touch(calls, k) EXCEPT ![k].pc = "resume"]
          /\ Written
     ELSE /\ calls' = [calls EXCEPT ![k].pc = "resume", ![k].error = TRUE]
          /\ UNCHANGED <<blocksTable, lastRead, lastDone>>
  /\ nfail' = IF ok THEN nfail ELSE nfail + 1
  /\ UNCHANGED <<nextId, page, blocks, loading, nops>>
  /\ UNCHANGED notPageContent

\* { ...b, ...updates }
Merge(b, updates) ==
  [b EXCEPT !.title = updates.title, !.content = updates.content,
            !.options = updates.options]

\* handleBlockUpdate resumes: if (!error) setBlocks(blocks.map(...)), with the
\* blocks of the render the handler was created in
UpdateDone(k) ==
  /\ k \in 1..Len(calls)
  /\ calls[k].fn = "handleBlockUpdate" /\ calls[k].pc = "resume"
  /\ LET c == calls[k]
     IN IF ~c.error
        THEN /\ blocks' = [blocks EXCEPT ![c.s] =
                  [j \in 1..Len(c.list) |->
                     IF c.list[j].id = c.arg.id THEN Merge(c.list[j], c.arg.row)
                     ELSE c.list[j]]]
             /\ calls' = RemoveAt(TouchLocal(calls, k, c.s), k)
        ELSE /\ calls' = RemoveAt(calls, k)
             /\ UNCHANGED blocks
  /\ UNCHANGED <<blocksTable, nextId, page, loading, nops, nfail, lastDone, lastRead>>
  /\ ItemsKeep(calls[k].s, blocks'[calls[k].s])
  /\ UNCHANGED notPage

\* handleBlockDelete up to its await
handleBlockDelete(s, blockId) ==
  /\ canEdit(s)
  /\ ~loading[s] /\ blockId \in Ids(blocks[s])
  /\ ~edit[s][blockId].isEditing
  /\ calls' = Append(calls, Call("handleBlockDelete", s, page[s], blocks[s],
                                 [id |-> blockId, row |-> Null],
                                 blocks[s], blocksTable))
  /\ nops' = nops + 1
  /\ UNCHANGED <<blocksTable, nextId, page, blocks, loading, nfail, lastDone, lastRead>>
  /\ UNCHANGED notPageContent

DeleteExec(k, ok) ==
  /\ k \in 1..Len(calls)
  /\ calls[k].fn = "handleBlockDelete" /\ calls[k].pc = "await"
  /\ IF ok
     THEN /\ blocksTable' = deleteBlock(blocksTable, calls[k].arg.id)
          /\ answersTable' =
               answersTable \ Referencing(answersTable, "block_id", {calls[k].arg.id})
          /\ videoPostsTable' =
               videoPostsTable \ Referencing(videoPostsTable, "block_id", {calls[k].arg.id})
          /\ calls' = [Touch(calls, k) EXCEPT ![k].pc = "resume"]
          /\ Written
     ELSE /\ calls' = [calls EXCEPT ![k].pc = "resume", ![k].error = TRUE]
          /\ UNCHANGED <<blocksTable, lastRead, lastDone, submissions>>
  /\ nfail' = IF ok THEN nfail ELSE nfail + 1
  /\ UNCHANGED <<nextId, page, blocks, loading, nops>>
  /\ UNCHANGED <<pagesTable, pages, mv, others, items, modal>>

\* blocks.filter(b => b.id !== blockId)
Filter(list, blockId) ==
  LET F[j \in 0..Len(list)] ==
        IF j = 0 THEN <<>>
        ELSE IF list[j].id # blockId THEN Append(F[j - 1], list[j]) ELSE F[j - 1]
  IN F[Len(list)]

\* handleBlockDelete resumes: if (!error) setBlocks(blocks.filter(...))
DeleteDone(k) ==
  /\ k \in 1..Len(calls)
  /\ calls[k].fn = "handleBlockDelete" /\ calls[k].pc = "resume"
  /\ LET c == calls[k]
     IN IF ~c.error
        THEN /\ blocks' = [blocks EXCEPT ![c.s] = Filter(c.list, c.arg.id)]
             /\ calls' = RemoveAt(TouchLocal(calls, k, c.s), k)
        ELSE /\ calls' = RemoveAt(calls, k)
             /\ UNCHANGED blocks
  /\ UNCHANGED <<blocksTable, nextId, page, loading, nops, nfail, lastDone, lastRead>>
  /\ ItemsKeep(calls[k].s, blocks'[calls[k].s])
  /\ UNCHANGED notPage

\* the position a new block is created at: the length of the local list
NewOrderIndex(list) == Len(list)

\* handleAddBlock up to its await: newBlock is built from the current render
handleAddBlock(s, in) ==
  /\ canEdit(s)
  /\ ~loading[s]
  /\ LET newBlock == [page_id |-> page[s], type |-> in.type, title |-> in.title,
                      content |-> in.content,
                      options |-> IF in.options = Undefined THEN Null ELSE in.options,
                      order_index |-> NewOrderIndex(blocks[s])]
     IN calls' = Append(calls, Call("handleAddBlock", s, page[s], blocks[s],
                                    [id |-> NoId, row |-> newBlock],
                                    blocks[s], blocksTable))
  /\ nops' = nops + 1
  /\ UNCHANGED <<blocksTable, nextId, page, blocks, loading, nfail, lastDone, lastRead>>
  /\ UNCHANGED notPageContent

\* what the add dialog leaves alone
notModal ==
  <<blocksTable, nextId, page, blocks, loading, calls, nfail, lastDone, lastRead,
    beside, items>>

\* an add button: setShowAddModal(true); the dialog is mounted
showAddModal(s) ==
  /\ canEdit(s)
  /\ ~loading[s]
  /\ ~modal[s].open
  /\ modal' = [modal EXCEPT ![s] = OpenModal]
  /\ nops' = nops + 1
  /\ UNCHANGED notModal

\* a type is chosen: setSelectedType(type); setStep('content')
handleTypeSelect(s, type) ==
  /\ modal[s].open /\ ~loading[s] /\ modal[s].step = "type"
  /\ modal' = [modal EXCEPT ![s].selectedType = type, ![s].step = "content"]
  /\ UNCHANGED <<notModal, nops>>

\* the content step of the dialog is on screen
OnContentStep(s) == modal[s].open /\ ~loading[s] /\ modal[s].step = "content"

setTitle(s, title) ==
  /\ OnContentStep(s)
  /\ modal' = [modal EXCEPT ![s].title = title]
  /\ UNCHANGED <<notModal, nops>>

setContent(s, content) ==
  /\ OnContentStep(s)
  /\ modal' = [modal EXCEPT ![s].content = content]
  /\ UNCHANGED <<notModal, nops>>

\* the options field is there when selectedType === 'multiple_choice'
setOptions(s, lines) ==
  /\ OnContentStep(s)
  /\ modal[s].selectedType = "multiple_choice"
  /\ modal' = [modal EXCEPT ![s].options = lines]
  /\ UNCHANGED <<notModal, nops>>

\* Back: setStep('type')
Back(s) ==
  /\ OnContentStep(s)
  /\ modal' = [modal EXCEPT ![s].step = "type"]
  /\ UNCHANGED <<notModal, nops>>

\* the dialog is closed: onClose
onClose(s) ==
  /\ modal[s].open /\ ~loading[s]
  /\ modal' = [modal EXCEPT ![s] = ClosedModal]
  /\ UNCHANGED <<notModal, nops>>

\* Add Block, disabled while the title is empty: if (selectedType && title)
\* onAdd(selectedType, title, content, optionsArray or undefined)
handleSubmit(s) ==
  /\ OnContentStep(s)
  /\ modal[s].title # ""
  /\ modal[s].selectedType # "null"
  /\ handleAddBlock(s, [type |-> modal[s].selectedType, title |-> modal[s].title,
                         content |-> modal[s].content,
                         options |-> ListOrUndefined(NonBlank(modal[s].options))])

InsertExec(k, ok) ==
  /\ k \in 1..Len(calls)
  /\ calls[k].fn = "handleAddBlock" /\ calls[k].pc = "await"
  /\ IF ok
     THEN /\ blocksTable' = insertBlock(blocksTable, nextId, calls[k].arg.row)
          /\ nextId' = nextId + 1
          /\ calls' = [Touch(calls, k) EXCEPT ![k].pc = "resume",
                                              ![k].data = <<blocksTable'[nextId]>>]
          /\ Written
     ELSE /\ calls' = [calls EXCEPT ![k].pc = "resume", ![k].error = TRUE]
          /\ UNCHANGED <<blocksTable, nextId, lastRead, lastDone>>
  /\ nfail' = IF ok THEN nfail ELSE nfail + 1
  /\ UNCHANGED <<page, blocks, loading, nops>>
  /\ UNCHANGED notPageContent

\* handleAddBlock resumes: if (!error && data) setBlocks([...blocks, data]);
\* setShowAddModal(false)
AddDone(k) ==
  /\ k \in 1..Len(calls)
  /\ calls[k].fn = "handleAddBlock" /\ calls[k].pc = "resume"
  /\ LET c == calls[k]
     IN IF ~c.error /\ Len(c.data) > 0
        THEN /\ blocks' = [blocks EXCEPT ![c.s] = c.list \o c.data]
             /\ calls' = RemoveAt(TouchLocal(calls, k, c.s), k)
        ELSE /\ calls' = RemoveAt(calls, k)
             /\ UNCHANGED blocks
  /\ modal' = [modal EXCEPT ![calls[k].s] = ClosedModal]
  /\ UNCHANGED <<blocksTable, nextId, page, loading, nops, nfail, lastDone, lastRead>>
  /\ ItemsKeep(calls[k].s, blocks'[calls[k].s])
  /\ UNCHANGED beside

\* the calls of a session, dropped
Others(q, s) ==
  LET F[j \in 0..Len(q)] ==
        IF j = 0 THEN <<>>
        ELSE IF q[j].s # s THEN Append(F[j - 1], q[j]) ELSE F[j - 1]
  IN F[Len(q)]

\* the tab is reloaded: the handlers in flight never resume, the component is
\* constructed again (blocks = [], loading = true) and its effect fetches
Reload(s) ==
  /\ nops' = nops + 1
  /\ blocks' = [blocks EXCEPT ![s] = <<>>]
  /\ loading' = [loading EXCEPT ![s] = TRUE]
  /\ calls' = Append(Others(calls, s), fetchBlocks(s))
  /\ lastDone' =
       IF \E k \in 1..Len(calls) : calls[k].s = s /\ calls[k].fn = "handleDragEnd"
       THEN Done(calls[CHOOSE k \in 1..Len(calls) :
                         calls[k].s = s /\ calls[k].fn = "handleDragEnd"],
                 "interrupted", blocksTable)
       ELSE IF lastDone.fn # "none" /\ lastDone.s = s
            THEN [lastDone EXCEPT !.local = FALSE]
            ELSE lastDone
  /\ UNCHANGED <<blocksTable, nextId, page, nfail, lastRead>>
  /\ ItemsReset(s)
  /\ modal' = [modal EXCEPT ![s] = ClosedModal]
  /\ UNCHANGED beside

\* ------------------------------------------------- DashboardLayout, Sidebar
\* A row of public.pages
PageRow(id, section_id, title, order_index) ==
  [id |-> id, section_id |-> section_id, title |-> title, order_index |-> order_index]

\* the seed data: section 1 holds pages 1..InitPages at 0..InitPages-1, section 2 one page
SeedPages ==
  [id \in 1..(InitPages + 1) |->
     IF id <= InitPages THEN PageRow(id, 1, "t0", id - 1)
     ELSE PageRow(id, 2, "t0", 0)]

\* .from('pages').select('*').eq('section_id', selectedSection.id).order('order_index')
selectPages(tbl, sec) ==
  OrderBy({tbl[id] : id \in {x \in DOMAIN tbl : tbl[x].section_id = sec}})

\* the effect on [selectedSection]: the select is issued
fetchPages(s, sec) == Call("fetchPages", s, sec, <<>>, NoArg, <<>>, pagesTable)

\* the select of fetchPages runs in the database
FetchPagesExec(k, ok) ==
  /\ k \in 1..Len(calls)
  /\ calls[k].fn = "fetchPages" /\ calls[k].pc = "await"
  /\ IF ok
     THEN \E q \in selectPages(pagesTable, calls[k].page) :
            calls' = [calls EXCEPT ![k].pc = "resume", ![k].data = q]
     ELSE calls' = [calls EXCEPT ![k].pc = "resume", ![k].error = TRUE]
  /\ nfail' = IF ok THEN nfail ELSE nfail + 1
  /\ UNCHANGED <<pagesTable, pages, nops, lastDone>>
  /\ UNCHANGED notDashboard

\* the calls of a session that still have a component to resume in, once its
\* PageContent is unmounted: a fetch of its blocks sets the state of a component
\* that is gone, which does nothing
Unmounted(q, s) ==
  LET F[j \in 0..Len(q)] ==
        IF j = 0 THEN <<>>
        ELSE IF q[j].s = s /\ q[j].fn = "fetchBlocks" THEN F[j - 1]
        ELSE Append(F[j - 1], q[j])
  IN F[Len(q)]

\* setSelectedPage(pg) and the render that follows; q is the calls in flight.
\* The same page id: nothing.  No page: PageContent is unmounted.  Another page:
\* PageContent is mounted (blocks = [], loading = true) or, when it is mounted
\* already, keeps its state; its effect on [page.id] runs: setLoading(true), fetch.
\* While loading, the spinner is all that is rendered: the items and the add
\* dialog are unmounted, and the dialog, if showAddModal holds, comes back new
ShowPage(s, pg, q) ==
  /\ page' = [page EXCEPT ![s] = pg]
  /\ IF pg = page[s]
     THEN /\ calls' = q
          /\ UNCHANGED <<blocks, loading, items, modal>>
     ELSE IF pg = NoId
     THEN /\ calls' = Unmounted(q, s)
          /\ blocks' = [blocks EXCEPT ![s] = <<>>]
          /\ loading' = [loading EXCEPT ![s] = TRUE]
          /\ ItemsReset(s)
          /\ modal' = [modal EXCEPT ![s] = ClosedModal]
     ELSE /\ calls' = Append(q, fetchBlocksOf(s, pg))
          /\ blocks' = [blocks EXCEPT ![s] = IF page[s] = NoId THEN <<>> ELSE @]
          /\ loading' = [loading EXCEPT ![s] = TRUE]
          /\ ItemsReset(s)
          /\ modal' = [modal EXCEPT ![s] = IF @.open THEN OpenModal ELSE @]

\* fetchPages resumes: setPages(data || []); the first page is selected, or none
FetchPagesDone(k) ==
  /\ k \in 1..Len(calls)
  /\ calls[k].fn = "fetchPages" /\ calls[k].pc = "resume"
  /\ pages' = [pages EXCEPT ![calls[k].s] = DataOrEmpty(calls[k])]
  /\ ShowPage(calls[k].s,
              IF ~calls[k].error /\ Len(calls[k].data) > 0
              THEN calls[k].data[1].id ELSE NoId,
              RemoveAt(TouchLocal(calls, k, calls[k].s), k))
  /\ UNCHANGED <<pagesTable, nops, nfail, lastDone>>
  /\ UNCHANGED <<blocksTable, nextId, lastRead, mv, others, submissions>>

\* a page of the sidebar is clicked: onPageSelect(page)
onPageSelect(s, pg) ==
  /\ pg \in Ids(pages[s])
  /\ ShowPage(s, pg, calls)
  /\ nops' = nops + 1
  /\ UNCHANGED <<pagesTable, pages, nfail, lastDone>>
  /\ UNCHANGED <<blocksTable, nextId, lastRead, mv, others, submissions>>

\* a section of the dropdown is chosen: onSectionChange(section); the effect on
\* [selectedSection] runs when it is another section
onSectionChange(s, sec) ==
  /\ sec # selectedSection[s]
  /\ selectedSection' = [selectedSection EXCEPT ![s] = sec]
  /\ calls' = Append(calls, fetchPages(s, sec))
  /\ nops' = nops + 1
  /\ UNCHANGED <<pagesTable, pages, nfail, lastDone>>
  /\ UNCHANGED <<blocksTable, nextId, page, blocks, loading, lastRead, mv>>
  /\ UNCHANGED <<dbRest, api, user, auth, submissions, items, modal>>

\* a navigation that stops at the ends of the list
newIndexClamped(list, selected, direction) ==
  LET currentIndex == findIndex(list, selected)
  IN IF direction = "prev"
     THEN IF currentIndex > 0 THEN currentIndex - 1 ELSE 0
     ELSE IF currentIndex < Len(list) - 1 THEN currentIndex + 1 ELSE Len(list) - 1

\* newIndex of navigatePage:
\*   prev: currentIndex > 0 ? currentIndex - 1 : pages.length - 1
\*   next: currentIndex < pages.length - 1 ? currentIndex + 1 : 0
newIndex(list, selected, direction) ==
  LET currentIndex == findIndex(list, selected)
  IN IF direction = "prev"
     THEN IF currentIndex > 0 THEN currentIndex - 1 ELSE Len(list) - 1
     ELSE IF currentIndex < Len(list) - 1 THEN currentIndex + 1 ELSE 0

Directions == {"prev", "next"}

\* navigatePage(direction): if (!selectedPage || pages.length === 0) return;
\* setSelectedPage(pages[newIndex])
navigatePage(s, direction) ==
  IF page[s] = NoId \/ Len(pages[s]) = 0
  THEN UNCHANGED vars
  ELSE /\ ShowPage(s, At0(pages[s], newIndex(pages[s], page[s], direction)).id, calls)
       /\ nops' = nops + 1
       /\ UNCHANGED <<pagesTable, pages, nfail, lastDone>>
       /\ UNCHANGED <<blocksTable, nextId, lastRead, mv, others, submissions>>

\* history: the list a reorder of the pages was called with
PagesArg(newPages) == [id |-> NoId, row |-> IdSeq(newPages)]

\* a reorder whose loop reads the pages state of its render, not its argument
handlePagesReorderStale(s, newPages) ==
  /\ pages' = [pages EXCEPT ![s] = newPages]
  /\ calls' = Append(TouchLocal(calls, 0, s),
                     Call("handlePagesReorder", s, selectedSection[s], pages[s], PagesArg(newPages),
                          pages[s], pagesTable))
  /\ nops' = nops + 1
  /\ UNCHANGED <<pagesTable, nfail, lastDone>>
  /\ UNCHANGED notDashboard

\* handlePagesReorder up to its first await: setPages(newPages), then the loop
\* over newPages begins
handlePagesReorder(s, newPages) ==
  /\ pages' = [pages EXCEPT ![s] = Optimistic(@, newPages)]
  /\ calls' = Append(TouchLocal(calls, 0, s),
                     Call("handlePagesReorder", s, selectedSection[s], newPages, PagesArg(newPages),
                          pages[s], pagesTable))
  /\ nops' = nops + 1
  /\ UNCHANGED <<pagesTable, nfail, lastDone>>
  /\ UNCHANGED notDashboard

\* one turn of the loop of handlePagesReorder
PagesReorderWrite(k, ok) ==
  /\ k \in 1..Len(calls)
  /\ calls[k].fn = "handlePagesReorder"
  /\ LET c == calls[k]
         i == Len(c.oks)
         w == WriteOf(c, i)
         c2 == [c EXCEPT !.oks = Append(@, ok)]
         tbl == IF ok THEN updateRow(pagesTable, w.id, w.payload)
                ELSE pagesTable
         q == IF ok THEN Touch(calls, k) ELSE calls
     IN /\ i < Len(c.list)
        /\ pagesTable' = tbl
        /\ IF i + 1 < Len(c.list)
           THEN /\ calls' = [q EXCEPT ![k] = c2]
                /\ lastDone' = IF ok THEN Stale(lastDone) ELSE lastDone
           ELSE /\ calls' = RemoveAt(q, k)
                /\ lastDone' = Done(c2, "returned", tbl)
  /\ nfail' = IF ok THEN nfail ELSE nfail + 1
  /\ UNCHANGED <<pages, nops>>
  /\ UNCHANGED notDashboard

\* Sidebar's handleDragEnd: the drag of page `active` onto page `over`, or onto none
SidebarHandleDragEnd(s, active, over) ==
  /\ canEdit(s)
  /\ Len(pages[s]) > 0
  /\ active \in Ids(pages[s]) /\ over \in Ids(pages[s]) \cup {NoId}
  /\ IF over # NoId /\ active # over
     THEN handlePagesReorder(s, DragResult(pages[s], active, over))
     ELSE UNCHANGED vars

\* the permutations of a list
PermutationsOf(list) ==
  {q \in [1..Len(list) -> {list[j] : j \in 1..Len(list)}] :
     \A i, j \in 1..Len(list) : i < j => q[i] # q[j]}

\* ------------------------------------------------------- the drag alone
NoMove == [step |-> "none"]

ItemNames == <<"A", "B", "C", "D", "E", "F">>

Items == {[id |-> ItemNames[j]] : j \in 1..MaxLen}

\* the lists of distinct items, of 1 to MaxLen items
Lists ==
  UNION {{q \in [1..n -> Items] : \A i, j \in 1..n : i < j => q[i] # q[j]} : n \in 1..MaxLen}

\* the index of an item of a list without repetition
IndexOf(a, id) == (CHOOSE j \in 1..Len(a) : a[j].id = id) - 1

\* the item `active` of the list is dragged onto the item `over`
Drag(active, over) ==
  /\ mv.step = "init"
  /\ active \in Ids(mv.array) /\ over \in Ids(mv.array) /\ active # over
  /\ mv' = [mv EXCEPT !.step = "moved",
                      !.from = IndexOf(mv.array, active),
                      !.to = IndexOf(mv.array, over),
                      !.out = DragResult(mv.array, active, over)]
  /\ UNCHANGED <<blocksTable, nextId, page, blocks, loading, pagesTable, pages, calls,
                 nops, nfail, lastDone, lastRead, others, submissions, items, modal>>

\* the item now at index `to` is dragged onto the item now at index `from`
DragBack ==
  /\ mv.step = "moved"
  /\ mv' = [mv EXCEPT !.step = "back",
                      !.back = DragResult(mv.out, At0(mv.out, mv.to).id,
                                          At0(mv.out, mv.from).id)]
  /\ UNCHANGED <<blocksTable, nextId, page, blocks, loading, pagesTable, pages, calls,
                 nops, nfail, lastDone, lastRead, others, submissions, items, modal>>

\* ------------------------------------------------------------ the database
\* the profiles: a student, a teacher and an admin
Users == {"u1", "u2", "u3"}

SeedUsers ==
  [u \in Users |->
     [id |-> u, role |-> IF u = "u1" THEN "student" ELSE IF u = "u2" THEN "teacher"
                         ELSE "admin"]]

\* the role that owns the tables: the SQL editor, which row level security lets by
Owner == "postgres"

Actors == Users \cup {Owner}

\* the seed data: two courses; sections 1 and 2 in course 1, section 3 in course 2
SeedCourses == [id \in 1..2 |-> [id |-> id, title |-> "t0"]]

SeedSections ==
  [id \in SectionIds |->
     [id |-> id, course_id |-> IF id <= 2 THEN 1 ELSE 2, title |-> "t0",
      order_index |-> IF id <= 2 THEN id - 1 ELSE 0]]

\* the student is enrolled in course 1: step 3 of the post-setup enrolls in the
\* courses there are when it is run, and a course may be added after it
SeedEnrollments == {[user_id |-> "u1", course_id |-> 1]}

TableNames ==
  {"users", "courses", "course_sections", "pages", "blocks", "course_enrollments",
   "student_answers", "video_posts"}

\* the tables whose rows the model holds as a set: their id is never read
IsSetTable(t) == t \in {"course_enrollments", "student_answers", "video_posts"}

\* the database, as one value
Db ==
  [users |-> usersTable, courses |-> coursesTable, course_sections |-> sectionsTable,
   pages |-> pagesTable, blocks |-> blocksTable, course_enrollments |-> enrollments,
   student_answers |-> answersTable, video_posts |-> videoPostsTable]

SetDb(d) ==
  /\ usersTable' = d.users
  /\ coursesTable' = d.courses
  /\ sectionsTable' = d.course_sections
  /\ pagesTable' = d.pages
  /\ blocksTable' = d.blocks
  /\ enrollments' = d.course_enrollments
  /\ answersTable' = d.student_answers
  /\ videoPostsTable' = d.video_posts

RowsIn(d, t) == IF IsSetTable(t) THEN d[t] ELSE Rows(d[t])

KeysOf(rows) == {r.id : r \in rows}

\* the foreign keys, every one ON DELETE CASCADE
ForeignKeys ==
  {[table |-> "course_sections", col |-> "course_id", parent |-> "courses"],
   [table |-> "pages", col |-> "section_id", parent |-> "course_sections"],
   [table |-> "blocks", col |-> "page_id", parent |-> "pages"],
   [table |-> "course_enrollments", col |-> "user_id", parent |-> "users"],
   [table |-> "course_enrollments", col |-> "course_id", parent |-> "courses"],
   [table |-> "student_answers", col |-> "user_id", parent |-> "users"],
   [table |-> "student_answers", col |-> "block_id", parent |-> "blocks"],
   [table |-> "video_posts", col |-> "block_id", parent |-> "blocks"],
   [table |-> "video_posts", col |-> "user_id", parent |-> "users"]}

\* UNIQUE(...): the columns that no two rows of a table share
UniqueKey(t) ==
  IF t = "course_enrollments" THEN {"user_id", "course_id"}
  ELSE IF t \in {"student_answers", "video_posts"} THEN {"user_id", "block_id"}
  ELSE {"id"}

\* the rows that go when the rows del go: one round of the cascade
CascadeStep(d, del) ==
  [t \in TableNames |->
     del[t] \cup UNION {Referencing(RowsIn(d, t), fk.col, KeysOf(del[fk.parent])) :
                          fk \in {f \in ForeignKeys : f.table = t}}]

RECURSIVE Cascade(_, _)
Cascade(d, del) ==
  LET more == CascadeStep(d, del)
  IN IF more = del THEN del ELSE Cascade(d, more)

Remove(d, del) ==
  [t \in TableNames |->
     IF IsSetTable(t) THEN d[t] \ del[t] ELSE Without(d[t], KeysOf(del[t]))]

\* EXISTS (SELECT 1 FROM users WHERE id = auth.uid() AND role IN ('teacher', 'admin'))
IsStaff(d, actor) ==
  actor \in DOMAIN d.users /\ d.users[actor].role \in {"teacher", "admin"}

\* a policy that lets every signed-in user write the content
PolicyAnyUser(d, actor, t, op, row) ==
  IF t \in {"course_sections", "pages", "blocks"} THEN actor \in DOMAIN d.users
  ELSE IF op = "SELECT" THEN TRUE
  ELSE IF t = "users" THEN op = "UPDATE" /\ row.id = actor
  ELSE IF t = "courses" THEN op \in {"INSERT", "UPDATE"} /\ IsStaff(d, actor)
  ELSE op \in {"INSERT", "UPDATE"} /\ row.user_id = actor

\* the policies of row level security: what a command of a client may see or write
Policy(d, actor, t, op, row) ==
  IF t = "users" THEN op = "SELECT" \/ (op = "UPDATE" /\ row.id = actor)
  ELSE IF t = "courses"
  THEN op = "SELECT" \/ (op \in {"INSERT", "UPDATE"} /\ IsStaff(d, actor))
  ELSE IF t \in {"course_sections", "pages", "blocks"}
  THEN op = "SELECT" \/ IsStaff(d, actor)
  ELSE IF t = "course_enrollments"
  THEN \/ op = "SELECT" /\ (row.user_id = actor \/ IsStaff(d, actor))
       \/ op = "INSERT" /\ row.user_id = actor
  ELSE IF t = "student_answers"
  THEN \/ op = "SELECT" /\ (row.user_id = actor \/ IsStaff(d, actor))
       \/ op \in {"INSERT", "UPDATE"} /\ row.user_id = actor
  ELSE \/ op = "SELECT"
       \/ op \in {"INSERT", "UPDATE"} /\ row.user_id = actor

\* the owner of the tables is not subject to the policies
Allowed(d, actor, t, op, row) == actor = Owner \/ Policy(d, actor, t, op, row)

\* .eq(column, value) ...: the rows a filter picks
Matches(row, filter) == \A c \in DOMAIN filter : row[c] = filter[c]

\* a row with some columns set
Patched(row, payload) ==
  [f \in DOMAIN row |-> IF f \in DOMAIN payload THEN payload[f] ELSE row[f]]

\* the parents a row names exist
ParentsExist(d, t, row) ==
  \A fk \in {f \in ForeignKeys : f.table = t} : row[fk.col] \in DOMAIN d[fk.parent]

\* no other row holds the unique key of the row
KeyFree(rows, t, row) ==
  \A r \in rows : \E c \in UniqueKey(t) : r[c] # row[c]

\* a table with one more row
WithRow(d, t, row) ==
  [d EXCEPT ![t] = IF IsSetTable(t) THEN @ \cup {row}
                   ELSE [x \in DOMAIN @ \cup {row.id} |-> IF x = row.id THEN row ELSE @[x]]]

\* what the backend answers: the database after the command, whether it failed,
\* and the rows it read or wrote
Answer(d, error, rows) == [db |-> d, error |-> error, rows |-> rows]

\* .insert(row): the policy is checked on the new row, then the constraints
insertRow(d, actor, t, row) ==
  IF /\ Allowed(d, actor, t, "INSERT", row)
     /\ ParentsExist(d, t, row)
     /\ KeyFree(RowsIn(d, t), t, row)
  THEN Answer(WithRow(d, t, row), FALSE, {row})
  ELSE Answer(d, TRUE, {})

\* .update(payload).eq(...): the rows the filter picks that the policy lets the
\* actor see and write are set; a new row the policy rejects fails the command
updateRows(d, actor, t, filter, payload) ==
  LET old == {r \in RowsIn(d, t) :
                Matches(r, filter) /\ Allowed(d, actor, t, "UPDATE", r)}
      new == {Patched(r, payload) : r \in old}
      rest == RowsIn(d, t) \ old
  IN IF /\ \A r \in new : /\ Allowed(d, actor, t, "UPDATE", r)
                          /\ ParentsExist(d, t, r)
                          /\ KeyFree(rest, t, r)
        /\ (IsSetTable(t) \/ "id" \notin DOMAIN payload)
     THEN Answer([d EXCEPT ![t] = IF IsSetTable(t) THEN rest \cup new
                                  ELSE [x \in DOMAIN @ |->
                                          IF @[x] \in old THEN Patched(@[x], payload)
                                          ELSE @[x]]],
                 FALSE, new)
     ELSE Answer(d, TRUE, {})

\* .delete().eq(...): the rows the filter picks that the policy lets the actor
\* delete go, and with them the rows that reference them
deleteRows(d, actor, t, filter) ==
  LET old == {r \in RowsIn(d, t) :
                Matches(r, filter) /\ Allowed(d, actor, t, "DELETE", r)}
      del == Cascade(d, [x \in TableNames |-> IF x = t THEN old ELSE {}])
  IN Answer(Remove(d, del), FALSE, old)

\* .select('*').eq(...): the rows the filter picks that the policy lets the actor see
selectRows(d, actor, t, filter) ==
  Answer(d, FALSE, {r \in RowsIn(d, t) :
                      Matches(r, filter) /\ Allowed(d, actor, t, "SELECT", r)})

\* .upsert(row): INSERT ... ON CONFLICT (id) DO UPDATE, the conflict target being
\* the primary key when onConflict is not given; a row with no id gets a fresh
\* one, which conflicts with none, so the command is the insert
upsertRow(d, actor, t, row) ==
  IF "id" \in DOMAIN row /\ ~IsSetTable(t) /\ row.id \in DOMAIN d[t]
  THEN updateRows(d, actor, t, [id |-> row.id], row)
  ELSE insertRow(d, actor, t, row)

\* history: no request yet
NoApi == [op |-> "none"]

\* history: a request and its answer
Request(d, actor, op, t, arg, ans) ==
  [op |-> op, actor |-> actor, table |-> t, arg |-> arg,
   staff |-> IsStaff(d, actor), error |-> ans.error, rows |-> ans.rows,
   changed |-> ans.db # d,
   gone |-> [x \in TableNames |-> RowsIn(d, x) \ RowsIn(ans.db, x)]]

\* uuid_generate_v4(): an id no row ever had
NewId == IF nextId > InitPages + 1 THEN nextId ELSE InitPages + 2

\* what no request of a client touches
notDb == <<page, blocks, loading, pages, calls, nfail, lastDone, lastRead, mv,
           selectedSection, user, auth, items, modal>>

\* a client, or the owner in the SQL editor, inserts a row
Insert(actor, t, row) ==
  LET new == IF IsSetTable(t) THEN row ELSE [id |-> NewId] @@ row
      ans == insertRow(Db, actor, t, new)
  IN /\ SetDb(ans.db)
     /\ api' = Request(Db, actor, "INSERT", t, new, ans)
     /\ nextId' = IF IsSetTable(t) THEN nextId ELSE NewId + 1
     /\ nops' = nops + 1
     /\ UNCHANGED notDb

Update(actor, t, filter, payload) ==
  LET ans == updateRows(Db, actor, t, filter, payload)
  IN /\ SetDb(ans.db)
     /\ api' = Request(Db, actor, "UPDATE", t, [filter |-> filter, payload |-> payload], ans)
     /\ nops' = nops + 1
     /\ UNCHANGED <<notDb, nextId>>

Delete(actor, t, filter) ==
  LET ans == deleteRows(Db, actor, t, filter)
  IN /\ SetDb(ans.db)
     /\ api' = Request(Db, actor, "DELETE", t, filter, ans)
     /\ nops' = nops + 1
     /\ UNCHANGED <<notDb, nextId>>

Select(actor, t, filter) ==
  LET ans == selectRows(Db, actor, t, filter)
  IN /\ api' = Request(Db, actor, "SELECT", t, filter, ans)
     /\ nops' = nops + 1
     /\ UNCHANGED <<notDb, nextId, blocksTable, pagesTable, dbRest, submissions>>

\* -------------------------------------------------------------- BlockItem
\* the block of the list the session shows, by id
BlockOf(s, b) == At0(blocks[s], findIndex(blocks[s], b))

\* an answer control of a block of a type is on screen
Shown(s, b, type) ==
  /\ ~loading[s]
  /\ b \in Ids(blocks[s])
  /\ ~edit[s][b].isEditing
  /\ BlockOf(s, b).type = type

\* handleYesNo / handleMultipleChoice up to the await: setSelectedAnswer(answer);
\* if (user) the upsert is issued
Answering(fn, s, b, answer) ==
  /\ selectedAnswer' = [selectedAnswer EXCEPT ![s] = (b :> answer) @@ @]
  /\ calls' = IF user[s] # NoUser
              THEN Append(calls, Call(fn, s, page[s], blocks[s],
                                      [id |-> b,
                                       row |-> [user_id |-> user[s].id, block_id |-> b,
                                                answer |-> answer]],
                                      blocks[s], blocksTable))
              ELSE calls
  /\ nops' = nops + 1
  /\ UNCHANGED <<blocksTable, nextId, page, blocks, loading, nfail, lastDone, lastRead>>
  /\ UNCHANGED <<notPage, videoPost, edit, recorder>>

handleYesNo(s, b, answer) ==
  /\ Shown(s, b, "yes_no")
  /\ answer \in {"yes", "no"}
  /\ Answering("handleYesNo", s, b, answer)

handleMultipleChoice(s, b, option) ==
  /\ Shown(s, b, "multiple_choice")
  /\ BlockOf(s, b).options.k = "list"
  /\ option \in Range(BlockOf(s, b).options.v)
  /\ Answering("handleMultipleChoice", s, b, option)

\* onSave={handleVideoRecorded}: the recorder, whose state and history are r,
\* hands in a video: setVideoPost(...), setShowVideoRecorder(false); if (user)
\* the upsert is issued
onSave(s, r, b, videoUrl) ==
  /\ Shown(s, b, "video_post")
  /\ videoPost' = [videoPost EXCEPT ![s] = (b :> videoUrl) @@ @]
  /\ recorder' = [recorder EXCEPT ![s] = RecorderUnmounted(r)]
  /\ calls' = IF user[s] # NoUser
              THEN Append(calls, Call("handleVideoRecorded", s, page[s], blocks[s],
                                      [id |-> b,
                                       row |-> [user_id |-> user[s].id, block_id |-> b,
                                                video_url |-> videoUrl]],
                                      blocks[s], blocksTable))
              ELSE calls
  /\ nops' = nops + 1
  /\ UNCHANGED <<blocksTable, nextId, page, blocks, loading, nfail, lastDone, lastRead>>
  /\ UNCHANGED <<notPage, selectedAnswer, edit>>

\* a video is handed in, however it was recorded
handleVideoRecorded(s, b, videoUrl) == onSave(s, recorder[s], b, videoUrl)

\* ------------------------------------------------------------ VideoRecorder
\* what the VideoRecorder leaves alone
notRecorder ==
  <<blocksTable, nextId, page, blocks, loading, calls, nfail, lastDone, lastRead,
    notPage, selectedAnswer, videoPost, edit>>

\* a click in the recorder of the session that changes its state to r
Click(s, r) ==
  /\ recorder' = [recorder EXCEPT ![s] = r]
  /\ nops' = nops + 1
  /\ UNCHANGED notRecorder

\* a callback of the recorder of the session that changes its state to r
Callback(s, r) ==
  /\ recorder' = [recorder EXCEPT ![s] = r]
  /\ UNCHANGED <<notRecorder, nops>>

\* "Record Video": setShowVideoRecorder(true).  The button is there while the
\* item has no video post; the recorder is mounted and its effect calls
\* startCamera
openRecorder(s, b) ==
  /\ Shown(s, b, "video_post")
  /\ b \notin DOMAIN videoPost[s]
  /\ ~recorder[s].mounted
  /\ Click(s, Mounted(recorder[s], b))

\* the X of the recorder: onClose, setShowVideoRecorder(false)
closeRecorder(s) ==
  /\ recorder[s].mounted
  /\ Click(s, RecorderUnmounted(recorder[s]))

\* startCamera resumes: getUserMedia answered with a stream, which is kept in
\* streamRef, or failed, and the error is set
startCamera(s, ok) ==
  /\ recorder[s].mounted /\ recorder[s].camera > 0
  /\ Callback(s, IF ok
                 THEN [recorder[s] EXCEPT !.camera = @ - 1, !.stream = "live"]
                 ELSE [recorder[s] EXCEPT !.camera = @ - 1, !.error = TRUE])

\* the record button, which is there while there is no preview and nothing is
\* being recorded, and enabled while there is no error.  start() throws when
\* the tracks of the stream have ended: the statements after it do not run
startRecording(s) ==
  LET r == recorder[s]
      id == Len(r.state) + 1
  IN /\ r.mounted /\ r.recordedUrl = Null /\ ~r.isRecording /\ ~r.error
     /\ Len(r.state) < MaxRecordings
     /\ Click(s, IF r.stream = "null" THEN r
                 ELSE IF r.stream = "ended"
                 THEN [r EXCEPT !.chunks = <<>>, !.mediaRecorder = id,
                                !.state = Append(@, "inactive")]
                 ELSE [r EXCEPT !.chunks = <<>>, !.mediaRecorder = id,
                                !.state = Append(@, "recording"),
                                !.isRecording = TRUE, !.recordingTime = 0,
                                !.timer = id, !.timers = @ \cup {id},
                                !.hist.started = TRUE])

\* the stop button, which is there while there is no preview and isRecording.
\* stop() of a MediaRecorder that is not recording throws or does nothing,
\* as the browser has it: `throws` is the former
stopRecording(s, throws) ==
  LET r == recorder[s]
      done == [r EXCEPT !.isRecording = FALSE, !.timers = @ \ {r.timer}]
  IN /\ r.mounted /\ r.recordedUrl = Null /\ r.isRecording
     /\ Click(s, IF r.mediaRecorder = 0 THEN r
                 ELSE IF r.state[r.mediaRecorder] = "recording"
                 THEN [done EXCEPT !.state[r.mediaRecorder] = "stopping",
                                   !.hist.stopped = TRUE]
                 ELSE IF throws THEN r ELSE done)

\* a MediaRecorder that was stopped fires dataavailable, with what it recorded,
\* and stop: ondataavailable pushes the data, if any, to chunksRef.current and
\* onstop makes the blob of chunksRef.current
RecorderStopped(s, id, size) ==
  LET r == recorder[s]
      chunks == IF size > 0 THEN Append(r.chunks, id) ELSE r.chunks
  IN /\ r.mounted
     /\ id \in 1..Len(r.state) /\ r.state[id] = "stopping"
     /\ Callback(s, [r EXCEPT !.state[id] = "inactive", !.chunks = chunks,
                              !.recordedBlob = Blob(chunks),
                              !.recordedUrl = createObjectURL(Blob(chunks))])

\* the interval of a recording ticks: setRecordingTime(prev => prev + 1)
Tick(s, id) ==
  /\ recorder[s].mounted
  /\ id \in recorder[s].timers
  /\ recorder[s].recordingTime < MaxTime
  /\ Callback(s, [recorder[s] EXCEPT !.recordingTime = @ + 1])

\* Re-record, which is there while there is a preview: resetRecording up to
\* its await
resetRecording(s) ==
  LET r == recorder[s]
  IN /\ r.mounted /\ r.recordedUrl # Null
     /\ Click(s, [r EXCEPT !.recordedBlob = Null, !.recordedUrl = Null,
                           !.recordingTime = 0,
                           !.stream = IF @ = "null" THEN @ ELSE "ended",
                           !.state = IF r.stream = "null" THEN @ ELSE TracksStopped(@),
                           !.camera = @ + 1,
                           !.hist = NoHist])

\* Save Video, which is there while there is a preview: handleSave up to the
\* callback of canvas.toBlob.  videoRef.current is null while the error is shown
VideoRecorderHandleSave(s) ==
  LET r == recorder[s]
  IN /\ r.mounted /\ r.recordedUrl # Null
     /\ Click(s, IF r.recordedBlob = Null \/ r.error THEN r
                 ELSE [r EXCEPT !.saving = Append(@, [block |-> r.block,
                                                      videoBlob |-> r.recordedBlob])])

\* canvas.toBlob calls back, with the thumbnail or with null: if (thumbnailBlob)
\* onSave(recordedBlob, thumbnailBlob), with the recordedBlob of the render
\* handleSave was created in
ThumbnailDone(s, thumbnailBlob) ==
  LET r == recorder[s]
      save == Head(r.saving)
      rest == [r EXCEPT !.saving = Tail(@)]
      handed == Append(r.handed, [videoBlob |-> save.videoBlob,
                                  thumbnailBlob |-> thumbnailBlob])
  IN /\ r.saving # <<>>
     /\ IF thumbnailBlob # Null /\ Shown(s, save.block, "video_post")
        THEN onSave(s, [rest EXCEPT !.handed = handed], save.block,
                    createObjectURL(save.videoBlob))
        ELSE /\ Callback(s, rest)


UpsertFns == {"handleYesNo", "handleMultipleChoice", "handleVideoRecorded"}

\* the upsert of an answer or of a video post is answered, or the request fails;
\* the handler reads neither data nor error, and does nothing after the await
UpsertExec(k, ok) ==
  /\ k \in 1..Len(calls)
  /\ calls[k].fn \in UpsertFns /\ calls[k].pc = "await"
  /\ LET c == calls[k]
         t == IF c.fn = "handleVideoRecorded" THEN "video_posts" ELSE "student_answers"
         ans == upsertRow(Db, c.arg.row.user_id, t, c.arg.row)
     IN IF ok
        THEN /\ answersTable' = ans.db.student_answers
             /\ videoPostsTable' = ans.db.video_posts
             /\ api' = Request(Db, c.arg.row.user_id, "UPSERT", t, c.arg.row, ans)
        ELSE UNCHANGED <<submissions, api>>
  /\ calls' = RemoveAt(calls, k)
  /\ nfail' = IF ok THEN nfail ELSE nfail + 1
  /\ UNCHANGED <<blocksTable, nextId, page, blocks, loading, nops, lastDone, lastRead>>
  /\ UNCHANGED <<pagesTable, pages, mv, selectedSection, dbRest, user, auth, items, modal>>

\* what a write of PageContent that runs under the policies leaves alone
notWrite ==
  <<page, blocks, loading, nops, nfail, pages, mv, selectedSection, user, auth, items,
    modal>>

\* history: a command of call k changed the database, or did not
Ran(k, ans) ==
  /\ lastRead' = IF ans.db # Db THEN NoReads ELSE lastRead
  /\ lastDone' = IF ans.db # Db THEN Stale(lastDone) ELSE lastDone
  /\ SetDb(ans.db)

\* the update of handleBlockUpdate runs in the backend as the user of the
\* session: { error } is what the policies and the constraints make of it
UpdateAs(k) ==
  /\ k \in 1..Len(calls)
  /\ calls[k].fn = "handleBlockUpdate" /\ calls[k].pc = "await"
  /\ LET c == calls[k]
         actor == authSession[c.s]
         ans == updateRows(Db, actor, "blocks", [id |-> c.arg.id], Json(c.arg.row))
     IN /\ Ran(k, ans)
        /\ api' = Request(Db, actor, "UPDATE", "blocks", c.arg, ans)
        /\ calls' = [(IF ans.db # Db THEN Touch(calls, k) ELSE calls)
                       EXCEPT ![k].pc = "resume", ![k].error = ans.error,
                              ![k].oks = <<ans.rows # {}>>]
  /\ UNCHANGED <<notWrite, nextId>>

\* the delete of handleBlockDelete runs in the backend as the user of the session
DeleteAs(k) ==
  /\ k \in 1..Len(calls)
  /\ calls[k].fn = "handleBlockDelete" /\ calls[k].pc = "await"
  /\ LET c == calls[k]
         actor == authSession[c.s]
         ans == deleteRows(Db, actor, "blocks", [id |-> c.arg.id])
     IN /\ Ran(k, ans)
        /\ api' = Request(Db, actor, "DELETE", "blocks", c.arg, ans)
        /\ calls' = [(IF ans.db # Db THEN Touch(calls, k) ELSE calls)
                       EXCEPT ![k].pc = "resume", ![k].error = ans.error,
                              ![k].oks = <<ans.rows # {}>>]
  /\ UNCHANGED <<notWrite, nextId>>

\* the insert of handleAddBlock runs in the backend as the user of the session
InsertAs(k) ==
  /\ k \in 1..Len(calls)
  /\ calls[k].fn = "handleAddBlock" /\ calls[k].pc = "await"
  /\ LET c == calls[k]
         actor == authSession[c.s]
         row == insertBlock(blocksTable, nextId, c.arg.row)[nextId]
         ans == insertRow(Db, actor, "blocks", row)
     IN /\ Ran(k, ans)
        /\ api' = Request(Db, actor, "INSERT", "blocks", c.arg, ans)
        /\ nextId' = IF ans.error THEN nextId ELSE nextId + 1
        /\ calls' = [(IF ans.db # Db THEN Touch(calls, k) ELSE calls)
                       EXCEPT ![k].pc = "resume", ![k].error = ans.error,
                              ![k].data = IF ans.error THEN <<>> ELSE <<row>>,
                              ![k].oks = <<ans.rows # {}>>]
  /\ UNCHANGED notWrite

\* ------------------------------------------------- LoginPage, checkUser
\* the accounts of auth.users: the email of a user is held as the user's id
Password == "pw"

\* LoginPage as it is mounted
NoLogin == [email |-> "", password |-> "", error |-> "", loading |-> FALSE]

\* what the sign-in and the dashboard's start leave alone
notAuth ==
  <<blocksTable, nextId, pagesTable, dbRest, submissions, lastDone, lastRead, mv>>

\* what LoginPage leaves alone
notLogin ==
  <<notAuth, route, authSession, courses, selectedCourse, sections, dashLoading, user,
    selectedSection, pages, page, blocks, loading, items, modal, api, calls, nfail>>

setEmail(s, email) ==
  /\ route[s] = "/"
  /\ login' = [login EXCEPT ![s].email = email]
  /\ UNCHANGED <<notLogin, nops>>

setPassword(s, password) ==
  /\ route[s] = "/"
  /\ login' = [login EXCEPT ![s].password = password]
  /\ UNCHANGED <<notLogin, nops>>

\* an attempt that keeps the error of the one before
KeptError(error) == error

\* setError('')
ClearedError(error) == ""

\* the form is submitted (both fields are required, the button is disabled while
\* loading): setLoading(true); setError(''); signInWithPassword is issued
handleLogin(s) ==
  /\ route[s] = "/"
  /\ login[s].email # "" /\ login[s].password # ""
  /\ ~login[s].loading
  /\ login' = [login EXCEPT ![s].loading = TRUE, ![s].error = ClearedError(@)]
  /\ calls' = Append(calls, Call("handleLogin", s, NoId, <<>>,
                                 [id |-> NoId,
                                  row |-> [email |-> login[s].email,
                                           password |-> login[s].password]],
                                 <<>>, blocksTable))
  /\ nops' = nops + 1
  /\ UNCHANGED <<notAuth, route, authSession, courses, selectedCourse, sections,
                 dashLoading, user, selectedSection, pages, page, blocks, loading, items,
                 modal, api, nfail>>

\* signInWithPassword answers: the session is stored when the credentials are
\* those of an account; otherwise, or when the request fails, an error comes back
SignInExec(k, ok) ==
  /\ k \in 1..Len(calls)
  /\ calls[k].fn = "handleLogin" /\ calls[k].pc = "await"
  /\ LET c == calls[k]
         accepted == ok /\ c.arg.row.email \in Users /\ c.arg.row.password = Password
     IN /\ authSession' = [authSession EXCEPT ![c.s] = IF accepted THEN c.arg.row.email
                                                       ELSE @]
        /\ calls' = [calls EXCEPT ![k].pc = "resume", ![k].error = ~accepted,
                                  ![k].data = IF accepted THEN <<>>
                                              ELSE IF ok THEN <<"Invalid login credentials">>
                                              ELSE <<"Failed to fetch">>]
  /\ nfail' = IF ok THEN nfail ELSE nfail + 1
  /\ UNCHANGED <<notAuth, route, login, courses, selectedCourse, sections, dashLoading,
                 user, selectedSection, pages, page, blocks, loading, items, modal, api,
                 nops>>

\* checkUser, as the effect of the mounted layout issues it
checkUser(s) == Call("checkUser", s, NoId, <<>>, [id |-> "none", ids |-> {}], <<>>,
                     blocksTable)

\* /dashboard is rendered: DashboardLayout is mounted with its initial state and
\* its effects run; q is the calls in flight
MountDashboard(s, q) ==
  /\ route' = [route EXCEPT ![s] = "/dashboard"]
  /\ login' = [login EXCEPT ![s] = NoLogin]
  /\ user' = [user EXCEPT ![s] = NoUser]
  /\ courses' = [courses EXCEPT ![s] = <<>>]
  /\ selectedCourse' = [selectedCourse EXCEPT ![s] = NoId]
  /\ sections' = [sections EXCEPT ![s] = <<>>]
  /\ selectedSection' = [selectedSection EXCEPT ![s] = NoId]
  /\ pages' = [pages EXCEPT ![s] = <<>>]
  /\ page' = [page EXCEPT ![s] = NoId]
  /\ blocks' = [blocks EXCEPT ![s] = <<>>]
  /\ loading' = [loading EXCEPT ![s] = TRUE]
  /\ ItemsReset(s)
  /\ modal' = [modal EXCEPT ![s] = ClosedModal]
  /\ dashLoading' = [dashLoading EXCEPT ![s] = TRUE]
  /\ calls' = Append(q, checkUser(s))

\* handleLogin resumes: if (error) { setError(error.message); setLoading(false) }
\* else { router.push('/dashboard'); router.refresh() }
LoginDone(k) ==
  /\ k \in 1..Len(calls)
  /\ calls[k].fn = "handleLogin" /\ calls[k].pc = "resume"
  /\ LET c == calls[k]
     IN IF c.error
        THEN /\ login' = [login EXCEPT ![c.s].error = c.data[1], ![c.s].loading = FALSE]
             /\ calls' = RemoveAt(calls, k)
             /\ UNCHANGED <<route, courses, selectedCourse, sections, dashLoading, user,
                            selectedSection, pages, page, blocks, loading, items, modal>>
        ELSE MountDashboard(c.s, RemoveAt(calls, k))
  /\ UNCHANGED <<notAuth, authSession, api, nops, nfail>>

\* the address /dashboard is entered
Enter(s) ==
  /\ route[s] = "/"
  /\ MountDashboard(s, calls)
  /\ nops' = nops + 1
  /\ UNCHANGED <<notAuth, authSession, api, nfail>>

\* a checkUser that pushes the route and goes on
AfterSessionNoReturn(session) == "profile"

\* where checkUser goes on after getSession: if (!session) { router.push('/');
\* return }
AfterSession(session) == IF session = "none" THEN "return" ELSE "profile"

\* checkUser resumes after getSession
GetSession(k) ==
  /\ k \in 1..Len(calls)
  /\ calls[k].fn = "checkUser" /\ calls[k].pc = "await"
  /\ LET c == calls[k]
         session == authSession[c.s]
     IN /\ route' = [route EXCEPT ![c.s] = IF session = "none" THEN "/" ELSE @]
        /\ calls' = IF AfterSession(session) = "return" THEN RemoveAt(calls, k)
                    ELSE [calls EXCEPT ![k].pc = "profile", ![k].arg.id = session]
  /\ UNCHANGED <<notAuth, authSession, login, courses, selectedCourse, sections,
                 dashLoading, user, selectedSection, pages, page, blocks, loading, items,
                 modal, api, nops, nfail>>

\* .single(): the one row, or null
Single(rows) == IF Cardinality(rows) = 1 THEN CHOOSE r \in rows : TRUE ELSE NoUser

\* checkUser resumes with the profile: if (profile) setUser(profile); a student
\* goes on to the enrollments, anyone else to the courses
ReadProfile(k, ok) ==
  /\ k \in 1..Len(calls)
  /\ calls[k].fn = "checkUser" /\ calls[k].pc = "profile"
  /\ LET c == calls[k]
         ans == selectRows(Db, c.arg.id, "users", [id |-> c.arg.id])
         profile == IF ok THEN Single(ans.rows) ELSE NoUser
     IN /\ user' = [user EXCEPT ![c.s] = IF profile # NoUser THEN profile ELSE @]
        /\ api' = IF ok THEN Request(Db, c.arg.id, "SELECT", "users", [id |-> c.arg.id], ans)
                  ELSE [op |-> "SELECT", actor |-> c.arg.id, table |-> "users",
                        error |-> TRUE]
        /\ calls' = [calls EXCEPT ![k].pc = IF profile.role = "student" THEN "enrollments"
                                            ELSE "courses"]
  /\ nfail' = IF ok THEN nfail ELSE nfail + 1
  /\ UNCHANGED <<notAuth, route, authSession, login, courses, selectedCourse, sections,
                 dashLoading, selectedSection, pages, page, blocks, loading, items, modal,
                 nops>>

\* fetchSections, as the effect on [selectedCourse] issues it
fetchSections(s, course) ==
  Call("fetchSections", s, course, <<>>, NoArg, <<>>, blocksTable)

\* the end of checkUser: setCourses(data || []); if (data && data.length > 0)
\* setSelectedCourse(data[0]); setLoading(false); and the effect on
\* [selectedCourse]; q is the calls in flight
SetCourses(s, error, data, q) ==
  /\ courses' = [courses EXCEPT ![s] = IF error THEN <<>> ELSE data]
  /\ selectedCourse' = [selectedCourse EXCEPT ![s] =
                          IF ~error /\ Len(data) > 0 THEN data[1].id ELSE @]
  /\ dashLoading' = [dashLoading EXCEPT ![s] = FALSE]
  /\ calls' = IF ~error /\ Len(data) > 0 THEN Append(q, fetchSections(s, data[1].id))
              ELSE q

\* the orders a select with no ORDER BY may answer in
RECURSIVE AnyOrder(_)
AnyOrder(S) ==
  IF S = {} THEN {<<>>}
  ELSE UNION {{<<r>> \o q : q \in AnyOrder(S \ {r})} : r \in S}

\* checkUser resumes with the enrollments of a student: no enrollment, no
\* courses read; setLoading(false)
ReadEnrollments(k, ok) ==
  /\ k \in 1..Len(calls)
  /\ calls[k].fn = "checkUser" /\ calls[k].pc = "enrollments"
  /\ LET c == calls[k]
         ans == selectRows(Db, c.arg.id, "course_enrollments", [user_id |-> c.arg.id])
         courseIds == IF ok THEN {e.course_id : e \in ans.rows} ELSE {}
     IN /\ api' = IF ok THEN Request(Db, c.arg.id, "SELECT", "course_enrollments",
                                     [user_id |-> c.arg.id], ans)
                  ELSE [op |-> "SELECT", actor |-> c.arg.id, table |-> "course_enrollments",
                        error |-> TRUE]
        /\ IF courseIds # {}
           THEN /\ calls' = [calls EXCEPT ![k].pc = "in", ![k].arg.ids = courseIds]
                /\ UNCHANGED dashLoading
           ELSE /\ calls' = RemoveAt(calls, k)
                /\ dashLoading' = [dashLoading EXCEPT ![c.s] = FALSE]
  /\ nfail' = IF ok THEN nfail ELSE nfail + 1
  /\ UNCHANGED <<notAuth, route, authSession, login, courses, selectedCourse, sections,
                 user, selectedSection, pages, page, blocks, loading, items, modal, nops>>

\* checkUser resumes with the courses: those .in('id', courseIds) for a student,
\* all for anyone else
ReadCourses(k, ok) ==
  /\ k \in 1..Len(calls)
  /\ calls[k].fn = "checkUser" /\ calls[k].pc \in {"courses", "in"}
  /\ LET c == calls[k]
         ans == selectRows(Db, c.arg.id, "courses", <<>>)
         rows == IF c.pc = "courses" THEN ans.rows
                 ELSE {r \in ans.rows : r.id \in c.arg.ids}
     IN /\ api' = IF ok THEN Request(Db, c.arg.id, "SELECT", "courses", c.arg.ids,
                                     [ans EXCEPT !.rows = rows])
                  ELSE [op |-> "SELECT", actor |-> c.arg.id, table |-> "courses",
                        error |-> TRUE]
        /\ \E data \in AnyOrder(rows) : SetCourses(c.s, ~ok, data, RemoveAt(calls, k))
  /\ nfail' = IF ok THEN nfail ELSE nfail + 1
  /\ UNCHANGED <<notAuth, route, authSession, login, sections, user, selectedSection,
                 pages, page, blocks, loading, items, modal, nops>>

\* .from('course_sections').select('*').eq('course_id', ...).order('order_index')
selectSections(tbl, course) == OrderBy({r \in Rows(tbl) : r.course_id = course})

FetchSectionsExec(k, ok) ==
  /\ k \in 1..Len(calls)
  /\ calls[k].fn = "fetchSections" /\ calls[k].pc = "await"
  /\ IF ok
     THEN \E q \in selectSections(sectionsTable, calls[k].page) :
            calls' = [calls EXCEPT ![k].pc = "resume", ![k].data = q]
     ELSE calls' = [calls EXCEPT ![k].pc = "resume", ![k].error = TRUE]
  /\ nfail' = IF ok THEN nfail ELSE nfail + 1
  /\ UNCHANGED <<notAuth, auth, user, selectedSection, pages, page, blocks, loading, items,
                 modal, api, nops>>

\* fetchSections resumes: setSections(data || []); the first section is
\* selected and the effect on [selectedSection] fetches its pages, or none is and
\* setPages([]), setSelectedPage(null)
FetchSectionsDone(k) ==
  /\ k \in 1..Len(calls)
  /\ calls[k].fn = "fetchSections" /\ calls[k].pc = "resume"
  /\ LET c == calls[k]
         data == DataOrEmpty(c)
         rest == RemoveAt(calls, k)
     IN /\ sections' = [sections EXCEPT ![c.s] = data]
        /\ IF Len(data) > 0
           THEN /\ selectedSection' = [selectedSection EXCEPT ![c.s] = data[1].id]
                /\ calls' = Append(rest, fetchPages(c.s, data[1].id))
                /\ UNCHANGED <<pages, page, blocks, loading, items, modal>>
           ELSE /\ selectedSection' = [selectedSection EXCEPT ![c.s] = NoId]
                /\ pages' = [pages EXCEPT ![c.s] = <<>>]
                /\ ShowPage(c.s, NoId, rest)
  /\ UNCHANGED <<notAuth, route, authSession, login, courses, selectedCourse,
                 dashLoading, user, api, nops, nfail>>

\* ------------------------------------------------------ the specifications
\* the state after construction and the first render: the lists are empty and
\* the effects of the components that are mounted have issued their fetch
Loaded(profile) ==
  /\ user = [s \in Sessions |-> profile]
  /\ route = [s \in Sessions |-> "/dashboard"]
  /\ authSession = [s \in Sessions |-> IF profile = NoUser THEN "u0" ELSE profile.id]
  /\ login = [s \in Sessions |-> NoLogin]
  /\ courses = [s \in Sessions |->
                  IF profile.role = "student" THEN <<SeedCourses[1]>>
                  ELSE <<SeedCourses[1], SeedCourses[2]>>]
  /\ selectedCourse = [s \in Sessions |-> 1]
  /\ sections = [s \in Sessions |-> <<SeedSections[1], SeedSections[2]>>]
  /\ dashLoading = [s \in Sessions |-> FALSE]

\* the tables as seeded, nothing in flight but the effects, the page pg of the
\* section sec selected
Seeded(effects, pg, sec) ==
  /\ blocksTable = SeedBlocks
  /\ selectedAnswer = NoItems
  /\ videoPost = NoItems
  /\ recorder = [s \in Sessions |-> NoRecorder]
  /\ edit = NoItems
  /\ modal = [s \in Sessions |-> ClosedModal]
  /\ nextId = InitBlocks + 2
  /\ page = [s \in Sessions |-> pg]
  /\ selectedSection = [s \in Sessions |-> sec]
  /\ blocks = [s \in Sessions |-> <<>>]
  /\ loading = [s \in Sessions |-> TRUE]
  /\ pagesTable = SeedPages
  /\ pages = [s \in Sessions |-> <<>>]
  /\ lastDone = NoDone
  /\ calls = effects
  /\ nops = 0
  /\ nfail = 0
  /\ lastRead = NoReads
  /\ usersTable = SeedUsers
  /\ coursesTable = SeedCourses
  /\ sectionsTable = SeedSections
  /\ enrollments = SeedEnrollments
  /\ api = NoApi

InitAs(effects, pg, sec, profile) == Seeded(effects, pg, sec) /\ Loaded(profile)

\* the dashboard of a teacher
InitAt(effects, pg, sec) == InitAs(effects, pg, sec, SeedUsers["u2"])

\* nothing was handed in yet
NoSubmissions == answersTable = {} /\ videoPostsTable = {}

\* the dashboard shows page 1 of section 1
InitOf(effects) == InitAt(effects, 1, 1)

Slots == 1..Cardinality(Sessions)

\* no handler of the session is in flight
Idle(s) == \A k \in 1..Len(calls) : calls[k].s # s

\* a backend call answers, or fails while the bound on failures allows
Outcomes == {TRUE} \cup {ok \in {FALSE} : nfail < MaxFails}

\* a user event of the session can be handled: the bounds of the model
CanStart(s) == nops < MaxOps /\ Idle(s)

\* one session on a page, one handler at a time; backend calls may fail, the tab
\* may be reloaded at any moment
Init == InitOf(<<fetchBlocks("s1")>>) /\ mv = NoMove /\ NoSubmissions

Next ==
  \/ \E k \in Slots, ok \in Outcomes : FetchExec(k, ok)
  \/ \E k \in Slots : FetchDone(k)
  \/ \E a \in 1..nextId, o \in 0..nextId : CanStart("s1") /\ handleDragEnd("s1", a, o)
  \/ \E k \in Slots, ok \in Outcomes : ReorderWrite(k, ok)
  \/ \E b \in 1..nextId : CanStart("s1") /\ handleBlockDelete("s1", b)
  \/ \E k \in Slots, ok \in Outcomes : DeleteExec(k, ok)
  \/ \E k \in Slots : DeleteDone(k)
  \/ \E in \in TextInputs : CanStart("s1") /\ handleAddBlock("s1", in)
  \/ \E k \in Slots, ok \in Outcomes : InsertExec(k, ok)
  \/ \E k \in Slots : AddDone(k)
  \/ nops < MaxOps /\ Reload("s1")

Spec == Init /\ [][Next]_vars

\* one session on a page, one handler at a time, every backend call answering
CanStartOk(s) == nops < MaxOkOps /\ Idle(s)

NextOk ==
  \/ \E k \in Slots : FetchExec(k, TRUE)
  \/ \E k \in Slots : FetchDone(k)
  \/ \E a \in 1..nextId, o \in 0..nextId : CanStartOk("s1") /\ handleDragEnd("s1", a, o)
  \/ \E k \in Slots : ReorderWrite(k, TRUE)
  \/ \E b \in 1..nextId : CanStartOk("s1") /\ handleBlockDelete("s1", b)
  \/ \E k \in Slots : DeleteExec(k, TRUE)
  \/ \E k \in Slots : DeleteDone(k)
  \/ \E in \in TextInputs : CanStartOk("s1") /\ handleAddBlock("s1", in)
  \/ \E k \in Slots : InsertExec(k, TRUE)
  \/ \E k \in Slots : AddDone(k)
  \/ CanStartOk("s1") /\ Reload("s1")

SpecOk == Init /\ [][NextOk]_vars

\* two sessions on the same page, one user event for each of them, every backend
\* call answering: the drags and edits of the two interleave
CanStartTwo(s) == nops < Cardinality(Sessions) /\ Idle(s)

InitTwo == InitOf(<<fetchBlocks("s1"), fetchBlocks("s2")>>) /\ mv = NoMove /\ NoSubmissions

NextTwo ==
  \/ \E k \in Slots : FetchExec(k, TRUE)
  \/ \E k \in Slots : FetchDone(k)
  \/ \E s \in Sessions, a \in 1..nextId, o \in 0..nextId :
       CanStartTwo(s) /\ handleDragEnd(s, a, o)
  \/ \E k \in Slots : ReorderWrite(k, TRUE)
  \/ \E s \in Sessions, b \in 1..nextId, u \in TitleInputs :
       CanStartTwo(s) /\ EditAndSave(s, b, u)
  \/ \E k \in Slots : UpdateExec(k, TRUE)
  \/ \E k \in Slots : UpdateDone(k)

SpecTwo == InitTwo /\ [][NextTwo]_vars

\* a list of any length up to MaxLen, one drag and the drag back
InitMove ==
  /\ InitOf(<<>>)
  /\ NoSubmissions
  /\ mv \in {[step |-> "init", array |-> a, from |-> 0, to |-> 0, out |-> a, back |-> a] :
               a \in Lists}

NextMove ==
  \/ \E a, o \in Ids(mv.array) : Drag(a, o)
  \/ DragBack

SpecMove == InitMove /\ [][NextMove]_vars

\* the pages of a section in one session, every backend call answering: drags in
\* the sidebar and reorders with any permutation of the page list
CanStartPages(s) == nops < MaxPageOps /\ Idle(s)

InitPagesSpec == InitOf(<<fetchPages("s1", 1)>>) /\ mv = NoMove /\ NoSubmissions

NextPages ==
  \/ \E k \in Slots : FetchPagesExec(k, TRUE)
  \/ \E k \in Slots : FetchPagesDone(k)
  \/ \E a \in DOMAIN pagesTable, o \in DOMAIN pagesTable \cup {NoId} :
       CanStartPages("s1") /\ SidebarHandleDragEnd("s1", a, o)
  \/ \E newPages \in PermutationsOf(pages["s1"]) :
       CanStartPages("s1") /\ Len(newPages) > 0 /\ handlePagesReorder("s1", newPages)
  \/ \E k \in Slots : PagesReorderWrite(k, TRUE)

SpecPages == InitPagesSpec /\ [][NextPages]_vars

\* the dashboard of one session: sections and pages are chosen while the reads of
\* the pages and of the blocks are in flight, and a read may fail
InitView == InitAt(<<fetchPages("s1", 1)>>, NoId, 1) /\ mv = NoMove /\ NoSubmissions

NextView ==
  \/ \E k \in 1..Len(calls), ok \in Outcomes : FetchPagesExec(k, ok)
  \/ \E k \in 1..Len(calls) : FetchPagesDone(k)
  \/ \E k \in 1..Len(calls), ok \in Outcomes : FetchExec(k, ok)
  \/ \E k \in 1..Len(calls) : FetchDone(k)
  \/ \E pg \in PageIds : nops < MaxViewOps /\ onPageSelect("s1", pg)
  \/ \E sec \in SectionIds : nops < MaxViewOps /\ onSectionChange("s1", sec)

SpecView == InitView /\ [][NextView]_vars

\* a student on a page: answers are chosen, videos recorded, the tab reloaded
InitAnswer ==
  /\ \E pg \in 1..2 : InitAs(<<fetchBlocksOf("s1", pg)>>, pg, 1, SeedUsers["u1"])
  /\ mv = NoMove
  /\ NoSubmissions

NextAnswer ==
  \/ \E k \in 1..Len(calls), ok \in Outcomes : FetchExec(k, ok)
  \/ \E k \in 1..Len(calls) : FetchDone(k)
  \/ \E b \in DOMAIN blocksTable, answer \in {"yes", "no"} :
       nops < MaxAnswerOps /\ handleYesNo("s1", b, answer)
  \/ \E b \in DOMAIN blocksTable, option \in {"o1", "o2"} :
       nops < MaxAnswerOps /\ handleMultipleChoice("s1", b, option)
  \/ \E b \in DOMAIN blocksTable, videoUrl \in {"v1", "v2"} :
       /\ nops < MaxAnswerOps
       /\ b \notin DOMAIN videoPost["s1"]
       /\ handleVideoRecorded("s1", b, videoUrl)
  \/ \E k \in 1..Len(calls), ok \in Outcomes : UpsertExec(k, ok)
  \/ nops < MaxAnswerOps /\ Reload("s1")

SpecAnswer == InitAnswer /\ [][NextAnswer]_vars

\* the dashboard of a user of any role, or of none: every event the page and the
\* sidebar offer
Profiles == Rows(SeedUsers) \cup {NoUser}

CanStartRole(s) == nops < MaxRoleOps /\ Idle(s)

InitRole ==
  /\ \E profile \in Profiles :
       InitAs(<<fetchBlocks("s1"), fetchPages("s1", 1)>>, 1, 1, profile)
  /\ mv = NoMove
  /\ NoSubmissions

NextRole ==
  \/ \E k \in 1..Len(calls) : FetchExec(k, TRUE)
  \/ \E k \in 1..Len(calls) : FetchDone(k)
  \/ \E k \in 1..Len(calls) : FetchPagesExec(k, TRUE)
  \/ \E k \in 1..Len(calls) : FetchPagesDone(k)
  \/ \E a \in 1..nextId, o \in 0..nextId : CanStartRole("s1") /\ handleDragEnd("s1", a, o)
  \/ \E k \in 1..Len(calls) : ReorderWrite(k, TRUE)
  \/ \E b \in 1..nextId, u \in UpdateInputs :
       CanStartRole("s1") /\ EditAndSave("s1", b, u)
  \/ \E k \in 1..Len(calls) : UpdateExec(k, TRUE)
  \/ \E k \in 1..Len(calls) : UpdateDone(k)
  \/ \E b \in 1..nextId : CanStartRole("s1") /\ handleBlockDelete("s1", b)
  \/ \E k \in 1..Len(calls) : DeleteExec(k, TRUE)
  \/ \E k \in 1..Len(calls) : DeleteDone(k)
  \/ \E in \in AddInputs : CanStartRole("s1") /\ handleAddBlock("s1", in)
  \/ \E k \in 1..Len(calls) : InsertExec(k, TRUE)
  \/ \E k \in 1..Len(calls) : AddDone(k)
  \/ \E a \in DOMAIN pagesTable, o \in DOMAIN pagesTable \cup {NoId} :
       CanStartRole("s1") /\ SidebarHandleDragEnd("s1", a, o)
  \/ \E k \in 1..Len(calls) : PagesReorderWrite(k, TRUE)
  \/ \E b \in 1..nextId, answer \in {"yes", "no"} :
       CanStartRole("s1") /\ handleYesNo("s1", b, answer)
  \/ \E k \in 1..Len(calls) : UpsertExec(k, TRUE)
  \/ \E pg \in PageIds : CanStartRole("s1") /\ onPageSelect("s1", pg)

SpecRole == InitRole /\ [][NextRole]_vars

\* a teacher on page 2: the add dialog and the editors of the blocks
EditTypes == {"text", "multiple_choice"}

OptionTexts == {<<"">>, <<"o1">>, <<"o1", " ", "o2">>}

CanStartEdit(s) == nops < MaxEditOps /\ Idle(s)

InitEdit == InitAt(<<fetchBlocksOf("s1", 2)>>, 2, 1) /\ mv = NoMove /\ NoSubmissions

NextEdit ==
  \/ \E k \in 1..Len(calls) : FetchExec(k, TRUE)
  \/ \E k \in 1..Len(calls) : FetchDone(k)
  \/ CanStartEdit("s1") /\ showAddModal("s1")
  \/ \E type \in EditTypes : handleTypeSelect("s1", type)
  \/ \E title \in {"", "t1"} : setTitle("s1", title)
  \/ setContent("s1", "c1")
  \/ \E lines \in OptionTexts : setOptions("s1", lines)
  \/ Back("s1")
  \/ onClose("s1")
  \/ CanStartEdit("s1") /\ handleSubmit("s1")
  \/ \E k \in 1..Len(calls) : InsertExec(k, TRUE)
  \/ \E k \in 1..Len(calls) : AddDone(k)
  \/ \E b \in 1..nextId : CanStartEdit("s1") /\ setIsEditing("s1", b)
  \/ \E b \in 1..nextId : setEditTitle("s1", b, "t1")
  \/ \E b \in 1..nextId, lines \in OptionTexts : setEditOptions("s1", b, lines)
  \/ \E b \in 1..nextId : CanStartEdit("s1") /\ handleSave("s1", b)
  \/ \E b \in 1..nextId : handleCancel("s1", b)
  \/ \E k \in 1..Len(calls) : UpdateExec(k, TRUE)
  \/ \E k \in 1..Len(calls) : UpdateDone(k)

SpecEdit == InitEdit /\ [][NextEdit]_vars

\* a browser at the login page, signed in or not: sign-in attempts, the
\* dashboard entered by its address, the dashboard's start
Emails == {"u1", "u2", "zz"}

Passwords == {Password, "bad"}

\* what the browser holds of an earlier visit
StoredSessions == {"none", "u1", "u2"}

CanStartAuth(s) == nops < MaxAuthOps /\ Idle(s)

InitAuth ==
  /\ Seeded(<<>>, NoId, NoId)
  /\ mv = NoMove
  /\ NoSubmissions
  /\ user = [s \in Sessions |-> NoUser]
  /\ route = [s \in Sessions |-> "/"]
  /\ \E session \in StoredSessions : authSession = [s \in Sessions |-> session]
  /\ login = [s \in Sessions |-> NoLogin]
  /\ courses = [s \in Sessions |-> <<>>]
  /\ selectedCourse = [s \in Sessions |-> NoId]
  /\ sections = [s \in Sessions |-> <<>>]
  /\ dashLoading = [s \in Sessions |-> TRUE]

NextAuth ==
  \/ \E email \in Emails : setEmail("s1", email)
  \/ \E password \in Passwords : setPassword("s1", password)
  \/ CanStartAuth("s1") /\ handleLogin("s1")
  \/ \E k \in 1..Len(calls), ok \in Outcomes : SignInExec(k, ok)
  \/ \E k \in 1..Len(calls) : LoginDone(k)
  \/ CanStartAuth("s1") /\ Enter("s1")
  \/ \E k \in 1..Len(calls) : GetSession(k)
  \/ \E k \in 1..Len(calls), ok \in Outcomes : ReadProfile(k, ok)
  \/ \E k \in 1..Len(calls), ok \in Outcomes : ReadEnrollments(k, ok)
  \/ \E k \in 1..Len(calls), ok \in Outcomes : ReadCourses(k, ok)
  \/ \E k \in 1..Len(calls), ok \in Outcomes : FetchSectionsExec(k, ok)
  \/ \E k \in 1..Len(calls) : FetchSectionsDone(k)
  \/ \E k \in 1..Len(calls), ok \in Outcomes : FetchPagesExec(k, ok)
  \/ \E k \in 1..Len(calls) : FetchPagesDone(k)
  \/ \E k \in 1..Len(calls), ok \in Outcomes : FetchExec(k, ok)
  \/ \E k \in 1..Len(calls) : FetchDone(k)

SpecAuth == InitAuth /\ [][NextAuth]_vars

\* one session on a page: blocks and pages are dragged, also while the loop of
\* an earlier drag is still running, and an update may fail
ReorderFns == {"handleDragEnd", "handlePagesReorder"}

\* the lists are read, and at most one loop is running when a drag ends
CanStartLoop ==
  /\ nops < MaxLoopOps
  /\ Len(calls) <= 1
  /\ \A k \in 1..Len(calls) : calls[k].fn \in ReorderFns

InitLoop ==
  InitOf(<<fetchBlocks("s1"), fetchPages("s1", 1)>>) /\ mv = NoMove /\ NoSubmissions

NextLoop ==
  \/ \E k \in 1..Len(calls) : FetchExec(k, TRUE)
  \/ \E k \in 1..Len(calls) : FetchDone(k)
  \/ \E k \in 1..Len(calls) : FetchPagesExec(k, TRUE)
  \/ \E k \in 1..Len(calls) : FetchPagesDone(k)
  \/ \E a \in 1..nextId, o \in 0..nextId :
       CanStartLoop /\ handleDragEnd("s1", a, o)
  \/ \E k \in 1..Len(calls), ok \in Outcomes : ReorderWrite(k, ok)
  \/ \E a \in DOMAIN pagesTable, o \in DOMAIN pagesTable \cup {NoId} :
       CanStartLoop /\ SidebarHandleDragEnd("s1", a, o)
  \/ \E k \in 1..Len(calls), ok \in Outcomes : PagesReorderWrite(k, ok)

SpecLoop == InitLoop /\ [][NextLoop]_vars

\* one session on a page, every backend call answering: a list is dragged again
\* while the loop of the drag before is still running
CanStartOverlap ==
  /\ nops < MaxOverlapOps
  /\ Len(calls) <= 1
  /\ \A k \in 1..Len(calls) : calls[k].fn \in ReorderFns

NextOverlap ==
  \/ \E k \in 1..Len(calls) : FetchExec(k, TRUE)
  \/ \E k \in 1..Len(calls) : FetchDone(k)
  \/ \E k \in 1..Len(calls) : FetchPagesExec(k, TRUE)
  \/ \E k \in 1..Len(calls) : FetchPagesDone(k)
  \/ \E a \in 1..nextId, o \in 0..nextId :
       CanStartOverlap /\ handleDragEnd("s1", a, o)
  \/ \E k \in 1..Len(calls) : ReorderWrite(k, TRUE)
  \/ \E a \in DOMAIN pagesTable, o \in DOMAIN pagesTable \cup {NoId} :
       CanStartOverlap /\ SidebarHandleDragEnd("s1", a, o)
  \/ \E k \in 1..Len(calls) : PagesReorderWrite(k, TRUE)

SpecOverlap == InitLoop /\ [][NextOverlap]_vars

\* a teacher on a page, every backend call answering: a block may be edited,
\* deleted or added while an earlier edit, delete or add is still in flight
CanStartMix == nops < MaxMixOps

NextMix ==
  \/ \E k \in 1..Len(calls) : FetchExec(k, TRUE)
  \/ \E k \in 1..Len(calls) : FetchDone(k)
  \/ \E b \in 1..nextId, u \in TitleInputs : CanStartMix /\ EditAndSave("s1", b, u)
  \/ \E k \in 1..Len(calls) : UpdateExec(k, TRUE)
  \/ \E k \in 1..Len(calls) : UpdateDone(k)
  \/ \E b \in 1..nextId : CanStartMix /\ handleBlockDelete("s1", b)
  \/ \E k \in 1..Len(calls) : DeleteExec(k, TRUE)
  \/ \E k \in 1..Len(calls) : DeleteDone(k)
  \/ \E in \in TextInputs : CanStartMix /\ handleAddBlock("s1", in)
  \/ \E k \in 1..Len(calls) : InsertExec(k, TRUE)
  \/ \E k \in 1..Len(calls) : AddDone(k)

SpecMix == Init /\ [][NextMix]_vars

\* a student on page 1, whose second block is a video post: the recorder is
\* opened and closed, recordings are started, stopped, discarded and saved, and
\* the callbacks of the camera, of the MediaRecorders and of canvas.toBlob run
\* when they run
Thumbnails == {Null, Blob(<<"jpeg">>)}

CanStartRec == nops < MaxRecOps

InitRecorder ==
  /\ InitAs(<<fetchBlocksOf("s1", 1)>>, 1, 1, SeedUsers["u1"])
  /\ mv = NoMove
  /\ NoSubmissions

NextRecorder ==
  \/ \E k \in 1..Len(calls) : FetchExec(k, TRUE)
  \/ \E k \in 1..Len(calls) : FetchDone(k)
  \/ \E b \in DOMAIN blocksTable : CanStartRec /\ openRecorder("s1", b)
  \/ CanStartRec /\ closeRecorder("s1")
  \/ \E ok \in BOOLEAN : startCamera("s1", ok)
  \/ CanStartRec /\ startRecording("s1")
  \/ \E throws \in BOOLEAN : CanStartRec /\ stopRecording("s1", throws)
  \/ \E id \in 1..MaxRecordings, size \in 0..1 : RecorderStopped("s1", id, size)
  \/ \E id \in 1..MaxRecordings : Tick("s1", id)
  \/ CanStartRec /\ resetRecording("s1")
  \/ CanStartRec /\ VideoRecorderHandleSave("s1")
  \/ \E thumbnailBlob \in Thumbnails : ThumbnailDone("s1", thumbnailBlob)
  \/ \E k \in 1..Len(calls) : UpsertExec(k, TRUE)

SpecRecorder == InitRecorder /\ [][NextRecorder]_vars

\* a teacher on a page whose writes run under the policies: the role of the
\* teacher may be changed in the SQL editor while the dashboard is open, and a
\* request may fail
CanStartPolicy(s) == nops < MaxPolicyOps /\ Idle(s)

NextPolicy ==
  \/ \E k \in 1..Len(calls) : FetchExec(k, TRUE)
  \/ \E k \in 1..Len(calls) : FetchDone(k)
  \/ \E b \in 1..nextId, u \in TitleInputs :
       CanStartPolicy("s1") /\ EditAndSave("s1", b, u)
  \/ \E k \in 1..Len(calls) : UpdateAs(k)
  \/ \E k \in 1..Len(calls) : nfail < MaxFails /\ UpdateExec(k, FALSE)
  \/ \E k \in 1..Len(calls) : UpdateDone(k)
  \/ \E b \in 1..nextId : CanStartPolicy("s1") /\ handleBlockDelete("s1", b)
  \/ \E k \in 1..Len(calls) : DeleteAs(k)
  \/ \E k \in 1..Len(calls) : nfail < MaxFails /\ DeleteExec(k, FALSE)
  \/ \E k \in 1..Len(calls) : DeleteDone(k)
  \/ \E in \in TextInputs : CanStartPolicy("s1") /\ handleAddBlock("s1", in)
  \/ \E k \in 1..Len(calls) : InsertAs(k)
  \/ \E k \in 1..Len(calls) : nfail < MaxFails /\ InsertExec(k, FALSE)
  \/ \E k \in 1..Len(calls) : AddDone(k)
  \/ \E role \in {"student", "teacher"} :
       /\ nops < MaxPolicyOps
       /\ Update(Owner, "users", [id |-> authSession["s1"]], [role |-> role])

SpecPolicy == Init /\ [][NextPolicy]_vars

\* the dashboard of one session: sections and pages are chosen and the pages
\* are gone through with prev and next, while reads are in flight
NextNav ==
  \/ \E k \in 1..Len(calls), ok \in Outcomes : FetchPagesExec(k, ok)
  \/ \E k \in 1..Len(calls) : FetchPagesDone(k)
  \/ \E k \in 1..Len(calls), ok \in Outcomes : FetchExec(k, ok)
  \/ \E k \in 1..Len(calls) : FetchDone(k)
  \/ \E pg \in PageIds : nops < MaxNavOps /\ onPageSelect("s1", pg)
  \/ \E sec \in SectionIds : nops < MaxNavOps /\ onSectionChange("s1", sec)
  \/ \E direction \in Directions : nops < MaxNavOps /\ navigatePage("s1", direction)

SpecNav == InitView /\ [][NextNav]_vars

\* the backend alone: the clients and the owner of the tables send it commands
ContentTables == {"courses", "course_sections", "pages", "blocks"}

\* the rows a client may try to insert
InsertInputs ==
  {<<"course_sections", [course_id |-> 1, title |-> "t1", order_index |-> 2]>>,
   <<"pages", [section_id |-> 3, title |-> "t1", order_index |-> 0]>>,
   <<"blocks", [page_id |-> 2, type |-> "text", title |-> "t1", content |-> "c0",
                options |-> Null, order_index |-> 1]>>,
   <<"course_enrollments", [user_id |-> "u1", course_id |-> 2]>>}
  \cup {<<"student_answers", [user_id |-> u, block_id |-> 3, answer |-> "no"]>> :
          u \in {"u1", "u2"}}
  \cup {<<"video_posts", [user_id |-> u, block_id |-> 2, video_url |-> "v1"]>> :
          u \in {"u1", "u2"}}

\* the updates a client may try
UpdateCommands ==
  {<<t, [id |-> 1], [title |-> "t1"]>> : t \in ContentTables \ {"courses"}}
  \cup {<<"student_answers", [user_id |-> "u1", block_id |-> 3], [answer |-> "no"]>>,
         <<"video_posts", [user_id |-> "u1", block_id |-> 2], [video_url |-> "v1"]>>,
         <<"users", [id |-> "u1"], [role |-> "teacher"]>>}

\* what was handed in before: nothing, or an answer and a video post of the student
SeedSubmissions ==
  {<<{}, {}>>,
   <<{[user_id |-> "u1", block_id |-> 3, answer |-> "yes"]},
     {[user_id |-> "u1", block_id |-> 2, video_url |-> "v0"]}>>}

InitDb ==
  /\ InitOf(<<>>)
  /\ mv = NoMove
  /\ \E sub \in SeedSubmissions : answersTable = sub[1] /\ videoPostsTable = sub[2]

NextDb ==
  \/ \E actor \in Actors, in \in InsertInputs :
       nops < MaxDbOps /\ Insert(actor, in[1], in[2])
  \/ \E actor \in Actors, u \in UpdateCommands :
       nops < MaxDbOps /\ Update(actor, u[1], u[2], u[3])
  \/ \E actor \in Actors, t \in ContentTables, id \in 1..2 :
       nops < MaxDbOps /\ Delete(actor, t, [id |-> id])
  \/ \E actor \in Actors :
       nops < MaxDbOps /\ Select(actor, "courses", <<>>)

SpecDb == InitDb /\ [][NextDb]_vars

\* --------------------------------------------------------------- the claims
AllOk(oks) == \A j \in 1..Len(oks) : oks[j]

\* the ids of the blocks stored under a page
Siblings(tbl, pg) == {id \in DOMAIN tbl : tbl[id].page_id = pg}

\* a reorder of fn that ran to its end, every update applied, no other writer
\* while it ran
Clean(d, fn) == d.fn = fn /\ d.how = "returned" /\ AllOk(d.oks) /\ ~d.dirty

PositionsContiguous ==
  calls = <<>> =>
    \A pg \in PageIds :
      LET ids == Siblings(blocksTable, pg)
      IN /\ {blocksTable[id].order_index : id \in ids} = 0..(Cardinality(ids) - 1)
         /\ \A a, b \in ids :
              a # b => blocksTable[a].order_index # blocksTable[b].order_index

\* C3: a drag of the item at index s onto the item at index t is a move, not a
\* swap: the item lands at index t and the other items keep their relative order;
\* [A,B,C,D] with the item at 0 dragged onto the item at 2 gives [B,C,A,D], that
\* is A at 2, B at 0, C at 1, D at 3.
DragIsMove ==
  mv.step \in {"moved", "back"} =>
    /\ Len(mv.out) = Len(mv.array)
    /\ At0(mv.out, mv.to) = At0(mv.array, mv.from)
    /\ RemoveAt(mv.out, mv.to + 1) = RemoveAt(mv.array, mv.from + 1)
    /\ (IdSeq(mv.array) = <<"A", "B", "C", "D">> /\ mv.from = 0 /\ mv.to = 2)
         => /\ IdSeq(mv.out) = <<"B", "C", "A", "D">>
            /\ IndexOf(mv.out, "A") = 2 /\ IndexOf(mv.out, "B") = 0
            /\ IndexOf(mv.out, "C") = 1 /\ IndexOf(mv.out, "D") = 3

\* C3, its case: [A,B,C,D], the item at 0 dragged onto the item at 2
DragIsMoveWitness ==
  /\ mv.step = "moved"
  /\ IdSeq(mv.array) = <<"A", "B", "C", "D">> /\ mv.from = 0 /\ mv.to = 2
  /\ IdSeq(mv.out) = <<"B", "C", "A", "D">>

\* C4: when two sessions reorder the blocks of the same page at the same time,
\* each row ends with the position of the write applied to it last, and once
\* both have ended no two blocks of the page have the same position.
ConcurrentReordersKeepUnique ==
  calls = <<>> =>
    \A a, b \in Siblings(blocksTable, 1) :
      a # b => blocksTable[a].order_index # blocksTable[b].order_index

\* C5: a reorder tells its caller how it went: success only when every update
\* was applied, a partial failure when some were and some were not, a failure
\* when none was, the three told apart.
ReorderReportsOutcome ==
  (lastDone.fn = "handleDragEnd" /\ lastDone.how = "returned") =>
    lastDone.result =
      IF AllOk(lastDone.oks) THEN "fulfilled"
      ELSE IF \E j \in 1..Len(lastDone.oks) : lastDone.oks[j] THEN "partial"
      ELSE "rejected"

\* the rows of a reorder hold what its updates left: the row at index j holds j
\* when its update was applied, and what it held before the reorder otherwise
Applied(order, oks, before, tbl) ==
  \A j \in 1..Len(order) :
    order[j] \in DOMAIN tbl =>
      tbl[order[j]].order_index =
        IF j <= Len(oks) /\ oks[j] THEN j - 1 ELSE before[order[j]]

\* C6: nothing is rolled back: while a reorder runs, and after it ended (by its
\* last update or by the reload of the tab), the updates that were applied stay
\* applied and the rows whose update failed or was never issued keep their old
\* position, and the local list stays in the new order until the user acts
\* again; the stored positions can so hold a duplicate.
NoRollback ==
  /\ \A k \in 1..Len(calls) :
       (calls[k].fn = "handleDragEnd" /\ ~calls[k].dirty) =>
         /\ Applied(IdSeq(calls[k].list), calls[k].oks, calls[k].before, blocksTable)
         /\ ~calls[k].ldirty => blocks[calls[k].s] = calls[k].list
  /\ (lastDone.fn = "handleDragEnd" /\ ~lastDone.dirty) =>
       /\ Applied(lastDone.order, lastDone.oks, lastDone.before, blocksTable)
       /\ (lastDone.local /\ ~lastDone.ldirty /\ Idle(lastDone.s)) =>
            IdSeq(blocks[lastDone.s]) = lastDone.order

\* C6, its case: the blocks held 0..n-1; a reorder ended with an update applied
\* and an update failed; two blocks now hold the same position and the local list
\* is in the new order
NoRollbackWitness ==
  /\ lastDone.fn = "handleDragEnd" /\ lastDone.how = "returned"
  /\ \E j \in 1..Len(lastDone.oks) : lastDone.oks[j]
  /\ \E j \in 1..Len(lastDone.oks) : ~lastDone.oks[j]
  /\ {lastDone.before[id] : id \in Range(lastDone.order)} = 0..(Len(lastDone.order) - 1)
  /\ \E a, b \in Range(lastDone.order) :
       a # b /\ blocksTable[a].order_index = blocksTable[b].order_index
  /\ IdSeq(blocks[lastDone.s]) = lastDone.order
  /\ lastDone.order # lastDone.orig

\* a row without its position
NonPosition(row) == [f \in DOMAIN row \ {"order_index"} |-> row[f]]

\* C7: a reorder changes positions only: none of its steps creates or destroys
\* a block, or changes another attribute of a block, in the table or in a local
\* list.
ReorderChangesOnlyPosition ==
  [][((\E s \in Sessions, a \in 1..nextId, o \in 0..nextId : handleDragEnd(s, a, o))
        \/ (\E k \in Slots, ok \in BOOLEAN : ReorderWrite(k, ok)))
     => /\ DOMAIN blocksTable' = DOMAIN blocksTable
        /\ \A id \in DOMAIN blocksTable :
             NonPosition(blocksTable'[id]) = NonPosition(blocksTable[id])
        /\ \A s \in Sessions :
             /\ Len(blocks'[s]) = Len(blocks[s])
             /\ Range(blocks'[s]) = Range(blocks[s])]_vars

\* C7, its case: a reorder ran to its end in a session whose local copy of a
\* block is older than the stored row
ReorderChangesOnlyPositionWitness ==
  /\ lastDone.fn = "handleDragEnd" /\ lastDone.how = "returned"
  /\ lastDone.order # lastDone.orig
  /\ \E j \in 1..Len(blocks[lastDone.s]) :
       blocks[lastDone.s][j].title # blocksTable[blocks[lastDone.s][j].id].title

\* C8: a reorder of the pages called twice in a row with the same list leaves
\* the same stored positions, and the same order read back, as called once.
ReorderIdempotent ==
  (Clean(lastDone, "handlePagesReorder") /\ Clean(lastDone.prev, "handlePagesReorder")
     /\ lastDone.arg.row = lastDone.prev.arg.row)
  => /\ lastDone.after = lastDone.prev.after
     /\ PosOf(pagesTable) = lastDone.prev.after
     /\ \A q \in selectPages(pagesTable, lastDone.page) : IdSeq(q) = lastDone.arg.row

\* C8, its case: the second of two reorders with the same list, other than the
\* order the pages had, has ended
ReorderIdempotentWitness ==
  /\ Clean(lastDone, "handlePagesReorder") /\ Clean(lastDone.prev, "handlePagesReorder")
  /\ lastDone.arg.row = lastDone.prev.arg.row
  /\ lastDone.prev.orig # lastDone.arg.row
  /\ PosOf(pagesTable) = lastDone.prev.after

\* C9: a drag from index s to index t and then a drag from t back to s, both
\* persisted, bring back the order the list had and the positions the rows had.
MoveBackRestores ==
  (Clean(lastDone, "handleDragEnd") /\ Clean(lastDone.prev, "handleDragEnd")
     /\ lastDone.orig = lastDone.prev.order
     /\ lastDone.arg.row.from = lastDone.prev.arg.row.to
     /\ lastDone.arg.row.to = lastDone.prev.arg.row.from)
  => /\ lastDone.order = lastDone.prev.orig
     /\ \A id \in Range(lastDone.order) :
          blocksTable[id].order_index = lastDone.prev.before[id]

\* C10: a select of the blocks of a page returns exactly the rows of the page,
\* in ascending position, and writes nothing; a second select, with no write
\* since the first, returns the same sequence.
ReadsRepeat ==
  [][/\ \A k \in 1..Len(calls) :
          (Len(calls') = Len(calls) /\ calls[k].fn = "fetchBlocks" /\ calls[k].pc = "await"
             /\ calls'[k].pc = "resume" /\ ~calls'[k].error)
          => /\ Range(calls'[k].data) = RowsOf(blocksTable, calls[k].page)
             /\ Len(calls'[k].data) = Cardinality(RowsOf(blocksTable, calls[k].page))
             /\ \A i, j \in 1..Len(calls'[k].data) :
                  i < j => calls'[k].data[i].order_index <= calls'[k].data[j].order_index
             /\ blocksTable' = blocksTable
     /\ \A pg \in PageIds :
          (lastRead[pg] # NoRead /\ lastRead'[pg] # NoRead) => lastRead'[pg] = lastRead[pg]]_vars

\* a fetch of the blocks, or of the pages, resumes with no row: a failed read or
\* a parent with no children
NoRows(k, fn) ==
  /\ calls[k].fn = fn /\ calls[k].pc = "resume"
  /\ (calls[k].error \/ calls[k].data = <<>>)

\* C11: a read that returns no data (a parent with no children, or a failed
\* read) leaves the local list empty: the blocks are [] and loading is cleared,
\* the pages are [] and no page is selected
EmptyReadLeavesEmptyList ==
  [][\A k \in 1..Len(calls) :
       /\ (NoRows(k, "fetchBlocks") /\ FetchDone(k)) =>
             /\ blocks'[calls[k].s] = <<>>
             /\ ~loading'[calls[k].s]
       /\ (NoRows(k, "fetchPages") /\ FetchPagesDone(k)) =>
             /\ pages'[calls[k].s] = <<>>
             /\ page'[calls[k].s] = NoId]_vars

\* the read of the blocks of page 1, which has blocks stored, failed
EmptyReadLeavesEmptyListWitness ==
  /\ nops = 0 /\ nfail = 1 /\ calls = <<>>
  /\ page["s1"] = 1 /\ Siblings(blocksTable, 1) # {}
  /\ blocks["s1"] = <<>> /\ ~loading["s1"]

\* C12: a block that is added is created at the end: its stored position is the
\* number of blocks the page had, and once the insert has succeeded it is the
\* last of the local list and the last of every answer of the select of the page,
\* whatever adds, deletes and reorders came before.
AddedBlockIsLast ==
  [][\A k \in 1..Len(calls) :
       (AddDone(k) /\ ~calls[k].error) =>
         LET new == calls[k].data[1]
             s == calls[k].s
         IN /\ new.order_index = Cardinality(Siblings(blocksTable, new.page_id)) - 1
            /\ blocks'[s][Len(blocks'[s])].id = new.id
            /\ \A q \in selectBlocks(blocksTable, new.page_id) :
                 q[Len(q)].id = new.id]_vars

\* the rows a row hangs under, itself included: its parents, their parents, ...
RECURSIVE Lineage(_, _, _)
Lineage(d, t, row) ==
  (IF IsSetTable(t) THEN {} ELSE {<<t, row.id>>})
  \cup UNION {Lineage(d, fk.parent, d[fk.parent][row[fk.col]]) :
                fk \in {f \in ForeignKeys : f.table = t}}

\* C13: deleting a parent removes all its descendants, transitively: with a
\* course its sections, their pages and the blocks of these; with a section its
\* pages and their blocks; with a page its blocks; and with a block the answers
\* and the video posts given to it.
CascadeRemovesDescendants ==
  [][(api' # api /\ api'.op = "DELETE" /\ api'.rows # {})
       => \A x \in TableNames : \A r \in RowsIn(Db, x) :
            <<api'.table, api'.arg.id>> \in Lineage(Db, x, r) => r \notin RowsIn(Db', x)]_vars

\* a course was deleted that had sections, pages, blocks, an answer and a video post
CascadeRemovesDescendantsWitness ==
  /\ api.op = "DELETE" /\ api.table = "courses" /\ api.changed
  /\ \A x \in {"course_sections", "pages", "blocks", "student_answers", "video_posts"} :
       api.gone[x] # {}
  /\ \A x \in TableNames : \A r \in RowsIn(Db, x) :
       <<"courses", api.arg.id>> \notin Lineage(Db, x, r)

\* the rows the backend holds of a user for a block
Handed(rows, u, b) == {r \in rows : r.user_id = u /\ r.block_id = b}

\* C14: after any sequence of answers (yes/no, multiple choice) or video posts of
\* one user to one block, every request answered, the backend holds at most one
\* row of the user for the block, and it carries the value handed in last: the
\* answer the item shows as selected, the video the item shows.
LastSubmissionStored ==
  (calls = <<>> /\ nfail = 0) =>
    /\ \A b \in DOMAIN selectedAnswer["s1"] :
         /\ Cardinality(Handed(answersTable, user["s1"].id, b)) <= 1
         /\ \A r \in Handed(answersTable, user["s1"].id, b) :
              r.answer = selectedAnswer["s1"][b]
    /\ \A b \in DOMAIN videoPost["s1"] :
         /\ Cardinality(Handed(videoPostsTable, user["s1"].id, b)) <= 1
         /\ \A r \in Handed(videoPostsTable, user["s1"].id, b) :
              r.video_url = videoPost["s1"][b]

\* the courses a user is enrolled in
EnrolledIn(u) == {e.course_id : e \in {x \in enrollments : x.user_id = u}}

\* C15: the policies let a student read only the courses the student is
\* enrolled in: no read of the courses table by a student returns a course the
\* student is not enrolled in; a teacher or an admin reads every course.
StudentReadsEnrolledCourses ==
  (api.op = "SELECT" /\ api.table = "courses" /\ api.actor \in Users) =>
    IF api.staff
    THEN api.rows = Rows(coursesTable)
    ELSE KeysOf(api.rows) \subseteq EnrolledIn(api.actor)

\* the last request was a write by a user that wrote at least one row
Wrote(ops, tables) ==
  /\ api.op \in ops /\ api.table \in tables
  /\ api.actor \in Users
  /\ ~api.error /\ api.rows # {}

\* C16: the policies let only the rightful author write: an insert, update or
\* delete of a section, page or block succeeds only for a teacher or an admin; an
\* insert or update of an answer or a video post succeeds only on rows whose user
\* id is the acting user, before and after the write.
WritesOnlyByAuthor ==
  /\ Wrote({"INSERT", "UPDATE", "DELETE"}, {"course_sections", "pages", "blocks"})
       => api.staff
  /\ Wrote({"INSERT", "UPDATE", "UPSERT"}, {"student_answers", "video_posts"})
       => \A r \in api.rows \cup api.gone[api.table] : r.user_id = api.actor

\* a teacher inserted a block
WritesOnlyByAuthorWitness ==
  /\ Wrote({"INSERT"}, {"blocks"})
  /\ api.staff /\ usersTable[api.actor].role = "teacher"
  /\ api.arg.id \in DOMAIN blocksTable

\* the requests that write a page or a block
EditFns == {"handleDragEnd", "handleBlockUpdate", "handleBlockDelete", "handleAddBlock",
            "handlePagesReorder"}

\* the profile of the session is that of a teacher or an admin
Edits(s) == user[s] \in {p \in Rows(SeedUsers) : p.role \in {"teacher", "admin"}}

\* C17: to a student, or with no profile, the UI offers no edit affordance (no
\* drag of a page or a block, no edit, delete or add control), so no sequence of
\* UI events issues a reorder, update, delete or insert of a page or a block: no
\* such handler is in flight, none can start, and the tables of the pages and
\* the blocks are as they were.  To a teacher or an admin every one of these
\* affordances is offered on a page that is loaded.
NoEditWithoutRole ==
  \A s \in {"s1"} :
    IF Edits(s)
    THEN /\ \A b \in Ids(blocks[s]), u \in UpdateInputs, in \in AddInputs :
              ~loading[s] =>
                /\ ENABLED handleDragEnd(s, b, NoId)
                /\ ENABLED EditAndSave(s, b, u)
                /\ ENABLED setIsEditing(s, b)
                /\ ENABLED showAddModal(s)
                /\ ENABLED handleBlockDelete(s, b)
                /\ ENABLED handleAddBlock(s, in)
         /\ \A pg \in Ids(pages[s]) : ENABLED SidebarHandleDragEnd(s, pg, NoId)
    ELSE
      /\ \A k \in 1..Len(calls) : calls[k].s = s => calls[k].fn \notin EditFns
      /\ blocksTable = SeedBlocks /\ pagesTable = SeedPages
      /\ lastDone = NoDone
      /\ \A b \in Ids(blocks[s]), u \in UpdateInputs, in \in AddInputs :
           /\ ~ENABLED handleDragEnd(s, b, NoId)
           /\ ~ENABLED EditAndSave(s, b, u)
           /\ ~ENABLED setIsEditing(s, b)
           /\ ~ENABLED showAddModal(s)
           /\ ~ENABLED handleBlockDelete(s, b)
           /\ ~ENABLED handleAddBlock(s, in)
      /\ \A pg \in Ids(pages[s]) : ~ENABLED SidebarHandleDragEnd(s, pg, NoId)

\* a student, the page and the page list on screen, after an event (an answer or
\* the choice of a page), nothing in flight
NoEditWithoutRoleWitness ==
  /\ user["s1"].role = "student"
  /\ ~loading["s1"] /\ Len(blocks["s1"]) > 1 /\ Len(pages["s1"]) > 1
  /\ nops = MaxRoleOps /\ calls = <<>>

\* C18: a block created through the add dialog, or saved through the inline
\* editor, carries options only if its type is multiple_choice, whatever types
\* were chosen, Back steps taken and texts entered before.
OptionsOnlyOnMultipleChoice ==
  \A b \in DOMAIN blocksTable :
    blocksTable[b].options # Null => blocksTable[b].type = "multiple_choice"

\* a call of fn of the session s is in flight at pc
InFlight(s, fn, pc) ==
  \E k \in 1..Len(calls) : calls[k].s = s /\ calls[k].fn = fn /\ calls[k].pc = pc

\* the call of fn of the session s that is in flight
TheCall(s, fn) == calls[CHOOSE k \in 1..Len(calls) : calls[k].s = s /\ calls[k].fn = fn]

\* [C19] When the dashboard is entered with no session, checkUser sends the
\* browser to the login page and ends there: no profile, enrollment or course
\* read is issued, and user, courses and selectedCourse are what they were at the
\* mount.  As long as the browser holds no session, no read has been made at all.
NoSessionRedirects ==
  /\ [](\A s \in {"s1"} :
          authSession[s] = "none" =>
            /\ api = NoApi
            /\ user[s] = NoUser /\ courses[s] = <<>> /\ selectedCourse[s] = NoId
            /\ ~InFlight(s, "checkUser", "profile"))
  /\ [][\A s \in {"s1"} :
          (InFlight(s, "checkUser", "await") /\ authSession[s] = "none"
             /\ calls' # calls)
          => /\ route[s] = "/dashboard" /\ route'[s] = "/"
             /\ calls' = <<>>
             /\ api' = NoApi
             /\ user'[s] = NoUser /\ courses'[s] = <<>> /\ selectedCourse'[s] = NoId]_vars

\* the dashboard was entered with no session and the login page is back
NoSessionRedirectsWitness ==
  /\ nops = 1 /\ calls = <<>>
  /\ authSession["s1"] = "none"
  /\ route["s1"] = "/" /\ login["s1"] = NoLogin
  /\ api = NoApi /\ user["s1"] = NoUser

\* [C20] A sign-in that is rejected shows the error message, clears loading and
\* does not navigate; one that is accepted navigates to the dashboard, no error
\* being shown; every attempt starts by clearing the error of the one before.
SignInOutcome ==
  [][\A s \in {"s1"} :
       /\ (InFlight(s, "handleLogin", "resume") /\ calls' # calls)
          => IF TheCall(s, "handleLogin").error
             THEN /\ login'[s].error = TheCall(s, "handleLogin").data[1]
                  /\ login'[s].error # ""
                  /\ ~login'[s].loading
                  /\ route'[s] = "/" /\ route[s] = "/"
             ELSE /\ route'[s] = "/dashboard"
                  /\ login[s].error = "" /\ login'[s].error = ""
                  /\ authSession[s] \in Users
       /\ (~InFlight(s, "handleLogin", "await") /\ InFlight(s, "handleLogin", "await")')
          => login'[s].error = "" /\ login'[s].loading]_vars

\* a rejected attempt: the message is shown, the button is enabled again, the
\* login page is still there
SignInOutcomeWitness ==
  /\ calls = <<>> /\ nfail = 0
  /\ login["s1"].error = "Invalid login credentials"
  /\ ~login["s1"].loading
  /\ route["s1"] = "/"

\* a step in which a reorder is called: the call is the last of those in flight
Called(fn) ==
  /\ Len(calls') = Len(calls) + 1
  /\ calls'[Len(calls')].fn = fn

\* [C22] In a reorder the local list is the new order before the first position
\* write is issued (the call begins with the list set, no write made, the tables
\* as they were), and no step of the loop, whether its write is applied or fails,
\* changes the local lists.
LocalListSetFirst ==
  [][/\ \A fn \in ReorderFns :
          Called(fn) =>
            LET c == calls'[Len(calls')]
            IN /\ (IF fn = "handleDragEnd" THEN blocks'[c.s] ELSE pages'[c.s]) = c.list
               /\ IdSeq(c.list) # c.orig
               /\ c.oks = <<>>
               /\ blocksTable' = blocksTable /\ pagesTable' = pagesTable
     /\ (blocksTable' # blocksTable \/ pagesTable' # pagesTable \/ lastDone' # lastDone
           \/ \E k \in 1..Len(calls) :
                /\ calls[k].fn \in ReorderFns
                /\ Len(calls') = Len(calls) /\ Len(calls'[k].oks) > Len(calls[k].oks))
        => blocks' = blocks /\ pages' = pages]_vars

\* a reorder of the blocks ended with an update that failed and one applied; the
\* local list is the new order
LocalListSetFirstWitness ==
  /\ lastDone.fn = "handleDragEnd" /\ lastDone.how = "returned"
  /\ ~AllOk(lastDone.oks) /\ \E j \in 1..Len(lastDone.oks) : lastDone.oks[j]
  /\ ~lastDone.ldirty /\ calls = <<>>
  /\ IdSeq(blocks["s1"]) = lastDone.order
  /\ lastDone.order # lastDone.orig

\* the table a reorder of fn writes
TableOf(fn) == IF fn = "handleDragEnd" THEN blocksTable ELSE pagesTable

\* [C23] A reorder of n siblings issues exactly n position writes, one per
\* sibling, in list order: the turn that follows i answered writes is the write
\* of position i to the sibling at index i and no other, the next is issued only
\* when that one has answered, and the reorder ends with n answers, also when a
\* sibling holds its position already.
WritesInListOrder ==
  /\ [](\A k \in 1..Len(calls) :
          calls[k].fn \in ReorderFns => Len(calls[k].oks) < Len(calls[k].list))
  /\ []((lastDone.fn \in ReorderFns /\ lastDone.how = "returned")
          => Len(lastDone.oks) = Len(lastDone.order))
  /\ [][(blocksTable' # blocksTable \/ pagesTable' # pagesTable)
        => \E k \in 1..Len(calls) :
             LET c == calls[k]
                 i == Len(c.oks)
                 n == Len(c.list)
             IN /\ c.fn \in ReorderFns /\ i < n
                /\ (IF c.fn = "handleDragEnd" THEN blocksTable' ELSE pagesTable')
                     = updateRow(TableOf(c.fn), c.list[i + 1].id, [order_index |-> i])
                /\ IF i + 1 < n
                   THEN /\ Len(calls') = Len(calls)
                        /\ calls'[k].oks = Append(c.oks, TRUE)
                        /\ calls'[k].list = c.list
                   ELSE /\ Len(calls') = Len(calls) - 1
                        /\ lastDone'.oks = Append(c.oks, TRUE)
                        /\ lastDone'.order = IdSeq(c.list)]_vars

\* a reorder ended with every update applied, one of a sibling that held its
\* position already
WritesInListOrderWitness ==
  /\ lastDone.fn \in ReorderFns /\ lastDone.how = "returned"
  /\ Len(lastDone.oks) = Len(lastDone.order) /\ AllOk(lastDone.oks)
  /\ lastDone.order # lastDone.orig
  /\ \E j \in 1..Len(lastDone.order) : lastDone.before[lastDone.order[j]] = j - 1

\* the item at index i of the local list has the stored position i
Agree(list, tbl) == \A j \in 1..Len(list) : tbl[list[j].id].order_index = j - 1

\* [C27] When a list is dragged a second time in one session while the loop of
\* the first drag is still running, and every write succeeds, then once both
\* loops have ended the stored positions agree with the local list: the entity
\* at local index i has the stored position i.
OverlappingDragsAgree ==
  (calls = <<>> /\ nfail = 0)
  => /\ Agree(blocks["s1"], blocksTable)
     /\ Agree(pages["s1"], pagesTable)

WriteFns == {"handleBlockUpdate", "handleBlockDelete", "handleAddBlock"}

\* [C24] Block update, delete and add change the local block list only when the
\* backend call has come back without error, and when the backend call fails, a
\* denial by the policies being one way to fail (the command writes no row), the
\* local list is left as it was; the write is not sent again.
LocalChangeFollowsWrite ==
  [][\A k \in 1..Len(calls) :
       (calls[k].fn \in WriteFns /\ calls[k].pc = "resume" /\ Len(calls') < Len(calls))
       => /\ calls' = RemoveAt(calls, k)
          /\ blocks' # blocks => ~calls[k].error
          /\ (calls[k].error \/ calls[k].oks = <<FALSE>>) => blocks' = blocks]_vars

\* the page that follows the page at index i of a list of n in a direction, the
\* list taken as a cycle (indices from 1)
Around(i, n, direction) ==
  IF direction = "next" THEN (IF i = n THEN 1 ELSE i + 1)
  ELSE (IF i = 1 THEN n ELSE i - 1)

\* [C25] Page navigation is cyclic over the local page list: next from index i
\* selects i + 1 and from the last page the first, prev from index i selects
\* i - 1 and from the first page the last; with no selected page or an empty
\* list navigation changes nothing; the page selected after a navigation is a
\* member of the page list.
NavigationCyclic ==
  \A direction \in Directions :
    LET list == IdSeq(pages["s1"])
        n == Len(list)
    IN IF page["s1"] = NoId \/ n = 0
       THEN ~ENABLED (navigatePage("s1", direction) /\ vars' # vars)
       ELSE /\ page["s1"] \in Range(list)
            /\ LET i == CHOOSE j \in 1..n : list[j] = page["s1"]
                   target == list[Around(i, n, direction)]
               IN /\ ENABLED (navigatePage("s1", direction) /\ page'["s1"] = target)
                  /\ ~ENABLED (navigatePage("s1", direction) /\ page'["s1"] # target)

\* next was pressed on the last page of a list of several: the first is selected
\* and its blocks are being read
NavigationCyclicWitness ==
  /\ nops = 2 /\ Len(pages["s1"]) > 1
  /\ page["s1"] = pages["s1"][1].id
  /\ loading["s1"]
  /\ InFlight("s1", "fetchBlocks", "await")
  /\ selectedSection["s1"] = 1

\* [C26] When the section is changed while list reads are in flight and the
\* reads complete in any order, then once all of them have completed the local
\* page list holds only pages of the selected section, and the selected page is
\* a member of that list, or none when the list is empty.
PagesOfSelectedSection ==
  calls = <<>>
  => /\ \A j \in 1..Len(pages["s1"]) :
          pages["s1"][j].section_id = selectedSection["s1"]
     /\ IF Len(pages["s1"]) = 0 THEN page["s1"] = NoId
        ELSE page["s1"] \in Ids(pages["s1"])


\* C29: after a successful inline edit the local copy of the block has the title,
\* the content and the options of the stored row, also when the editor removed
\* every option of a multiple choice block
EditedCopyEqualsStored ==
  [][\A k \in 1..Len(calls) :
       (UpdateDone(k) /\ ~calls[k].error)
       => LET id == calls[k].arg.id
              b == At0(blocks'[calls[k].s], findIndex(blocks'[calls[k].s], id))
          IN /\ b.title = blocksTable'[id].title
             /\ b.content = blocksTable'[id].content
             /\ b.options = blocksTable'[id].options]_vars


\* C28: when updates, deletes and adds of one page overlapped and all of them
\* have completed successfully, the local block list holds exactly the blocks
\* stored for the page, and no two stored blocks of the page share a position
OverlappingEditsAgree ==
  (calls = <<>> /\ ~loading["s1"])
  => LET stored == RowsOf(blocksTable, page["s1"])
     IN /\ Ids(blocks["s1"]) = {r.id : r \in stored}
        /\ \A r1, r2 \in stored : r1.order_index = r2.order_index => r1.id = r2.id


\* C21: the recorder hands a recording to the block only while a completed
\* recording exists, after a start and a stop of recording, and with a
\* thumbnail; Re-record discards the recording (blob and preview URL null,
\* timer 0, startCamera called), and what is handed over after it was started
\* and stopped after it
RecordingHandedOver ==
  [][LET r == recorder["s1"]
     IN /\ Len(recorder'["s1"].handed) > Len(r.handed)
           => /\ r.mounted /\ r.recordedBlob # Null /\ r.recordedUrl # Null
              /\ r.hist.started /\ r.hist.stopped
              /\ recorder'["s1"].handed[Len(r.handed) + 1].thumbnailBlob # Null
        /\ resetRecording("s1")
           => /\ recorder'["s1"].recordedBlob = Null
              /\ recorder'["s1"].recordedUrl = Null
              /\ recorder'["s1"].recordingTime = 0
              /\ recorder'["s1"].camera = r.camera + 1]_vars

\* C30: a completed recording (blob and preview URL set) exists only while
\* nothing is being recorded, and its blob holds the chunks of one recording
CompletedWhileNotRecording ==
  LET r == recorder["s1"]
  IN (r.recordedBlob # Null /\ r.recordedUrl # Null)
     => /\ ~r.isRecording
        /\ \A id \in 1..Len(r.state) : r.state[id] # "recording"
        /\ \A i, j \in 1..Len(r.recordedBlob.v) :
             r.recordedBlob.v[i] = r.recordedBlob.v[j]

====
